---- MODULE Spec2Model ----
(***************************************************************************)
(* A model of the strategy execution engine of the process optimizer:      *)
(* Variable and DataContext, the Constraint, MathFunction, Composition and *)
(* Optimization skills, and OptimizationStrategy.run_cycle.                *)
(*                                                                         *)
(* Python values.  A float is a pair <<n, d>>: the rational n/d in lowest  *)
(* terms with d > 0, <<1, 0>> for inf, <<-1, 0>> for -inf and <<0, 0>> for *)
(* nan.  None is the empty tuple.  A value as it arrives in the live data  *)
(* (before float() is applied) is a record tagged with its Python type.    *)
(***************************************************************************)
EXTENDS Integers, Sequences, FiniteSets, TLC

VARIABLES
    variables_config,   \* Strategy.variables_config / the argument of DataContext()
    ctx,                \* DataContext._variables: var_id -> Variable
    call,               \* the last call made on the context and how it ended
    cons,               \* the Constraint skill under execution (its configuration)
    comp,               \* CompositionSkill.execute: the main thread's position
    pool,               \* the execution of each skill of the sequence, by position
    trace,              \* the futures whose exception future.result() has raised
    cfg,                \* OptimizationStrategy: skills_config and tasks_config
    cyc,                \* run_cycle: position in the task list, outcome
    opt,                \* OptimizationSkill.execute: the state of the search
    hist,               \* run_cycle: snapshots taken at the points claims refer to
    mf,                 \* a MathFunction skill, its interpreter and its executions
    inf,                \* an InferenceModel skill, the artifact store and its executions
    rep,                \* one Strategy over several run_cycle calls and their results
    svc,                \* OptimizationService / APIService: one cycle or request
    app,                \* ProcessOptimizationApp: the threads that run cycles
    cache               \* the strategy cache, the timestamp file and the calls made

ctxVars == <<variables_config, ctx, call>>
consVars == <<cons>>
compVars == <<comp, pool, trace>>
cycVars == <<cfg, cyc, opt, hist>>
skillVars == <<mf, inf>>
serviceVars == <<rep, svc, app, cache>>
vars ==
    <<variables_config, ctx, call, cons, comp, pool, trace, cfg, cyc, opt, hist, mf, inf,
      rep, svc, app, cache>>

-----------------------------------------------------------------------------
(* Bounds of the model.                                                    *)

\* Largest var_min, var_max, op_min or op_max of a Constraint configuration.
MaxLimit == 2
\* Longest live-data map handed to populate_initial_data.
MaxData == 2
\* Longest skill_sequence of a CompositionSkill.
MaxSeq == 5
\* Most objective evaluations the solver makes in one search.
MaxEvals == 2
\* Most executions of one MathFunction or InferenceModel skill.
MaxRuns == 2
\* Latest last-run timestamp (timestamps are 1..MaxTime).
MaxTime == 2
\* Highest configuration version (versions are 1..MaxVersion).
MaxVersion == 2
\* Most get_last_run_timestamp and update_last_run_timestamp calls in a row.
MaxCalls == 3
\* Most cycles of OptimizationService.run_continuous.
MaxCycles == 2
\* Most requests the API service is handling at a time.
MaxRequests == 2
\* Most run_cycle calls on one Strategy.
MaxRepeat == 3

-----------------------------------------------------------------------------
(* Python floats.                                                          *)

None == <<>>
NaN == <<0, 0>>
PosInf == <<1, 0>>
NegInf == <<-1, 0>>

Abs(n) == IF n < 0 THEN -n ELSE n

RECURSIVE Gcd(_, _)
Gcd(m, n) == IF n = 0 THEN m ELSE Gcd(n, m % n)

\* The float n/d (d # 0), in lowest terms with a positive denominator.
Ratio(n, d) ==
    LET g == Gcd(Abs(n), Abs(d))
        s == IF d < 0 THEN -1 ELSE 1
    IN  <<(s * n) \div g, (s * d) \div g>>

MkF(n) == <<n, 1>>

IsNaN(x) == x = NaN
IsInf(x) == x[2] = 0 /\ x[1] # 0
IsFinite(x) == x[2] # 0

\* -1, 0, 1 for -inf, a finite float, inf.
Rank(x) == IF x[2] # 0 THEN 0 ELSE x[1]

\* Python's <, <=, == and != on floats: every comparison with nan is False.
FLt(x, y) ==
    /\ ~IsNaN(x) /\ ~IsNaN(y)
    /\ IF IsFinite(x) /\ IsFinite(y) THEN x[1] * y[2] < y[1] * x[2]
                                     ELSE Rank(x) < Rank(y)
FEq(x, y) == ~IsNaN(x) /\ ~IsNaN(y) /\ x = y
FLe(x, y) == FLt(x, y) \/ FEq(x, y)
FNe(x, y) == ~FEq(x, y)

FNeg(x) == <<-x[1], x[2]>>

FAdd(x, y) ==
    IF IsNaN(x) \/ IsNaN(y) THEN NaN
    ELSE IF IsFinite(x) /\ IsFinite(y) THEN Ratio(x[1] * y[2] + y[1] * x[2], x[2] * y[2])
    ELSE IF IsFinite(x) THEN y
    ELSE IF IsFinite(y) THEN x
    ELSE IF x = y THEN x ELSE NaN

FSub(x, y) == FAdd(x, FNeg(y))

FMul(x, y) ==
    IF IsNaN(x) \/ IsNaN(y) THEN NaN
    ELSE IF IsFinite(x) /\ IsFinite(y) THEN Ratio(x[1] * y[1], x[2] * y[2])
    ELSE IF x[1] = 0 \/ y[1] = 0 THEN NaN
    ELSE IF (x[1] < 0) = (y[1] < 0) THEN PosInf ELSE NegInf

\* Python's x / y on floats: [ok |-> TRUE, v |-> quotient], or ZeroDivisionError.
FDiv(x, y) ==
    IF IsFinite(y) /\ y[1] = 0 THEN [ok |-> FALSE, exc |-> "ZeroDivisionError"]
    ELSE IF IsNaN(x) \/ IsNaN(y) THEN [ok |-> TRUE, v |-> NaN]
    ELSE IF IsFinite(x) /\ IsFinite(y)
         THEN [ok |-> TRUE, v |-> Ratio(x[1] * y[2], x[2] * y[1])]
    ELSE IF IsFinite(x) THEN [ok |-> TRUE, v |-> MkF(0)]
    ELSE IF IsFinite(y)
         THEN [ok |-> TRUE, v |-> IF (x[1] < 0) = (y[1] < 0) THEN PosInf ELSE NegInf]
    ELSE [ok |-> TRUE, v |-> NaN]

\* A value as it arrives in the live data: a Python int <<n>>, a float or None.
PyInt(n) == [py |-> "int", v |-> <<n>>]
PyFlt(x) == [py |-> "float", v |-> x]
PyNone == [py |-> "NoneType", v |-> None]

\* float(value): an int becomes the float of the same value, a float is
\* returned as it is, None raises TypeError.
PyFloat(value) ==
    CASE value.py = "int" -> [ok |-> TRUE, v |-> MkF(value.v[1])]
      [] value.py = "float" -> [ok |-> TRUE, v |-> value.v]
      [] OTHER -> [ok |-> FALSE, exc |-> "TypeError"]

\* Python's slot == value, for a slot holding a float or None.
PyEq(slot, value) ==
    CASE value.py = "int" -> slot # None /\ FEq(slot, MkF(value.v[1]))
      [] value.py = "float" -> slot # None /\ FEq(slot, value.v)
      [] OTHER -> slot = None

-----------------------------------------------------------------------------
(* Variable.                                                               *)

VarTypes == {"Operative", "Informative", "Calculated", "Delta", "Predicted",
             "Constraint", "CalculatedKPI"}

\* config.get(key, default)
ConfigGet(config, key, default) ==
    IF key \in DOMAIN config THEN config[key] ELSE default

\* Variable.__init__
VariableNew(var_id, config) ==
    [var_id |-> var_id,
     var_type |-> ConfigGet(config, "type", "Unknown"),
     threshold |-> ConfigGet(config, "threshold", MkF(0)),
     current_value |-> None,
     dof_value |-> None,
     recommended_value |-> None]

\* set_initial_value forgetting the recommendation slot.
set_initial_value_two_slots(var, f) ==
    [var EXCEPT !.current_value = f, !.dof_value = f]

\* Variable.set_initial_value with float(value) already evaluated to f.
set_initial_value(var, f) ==
    [var EXCEPT !.current_value = f, !.dof_value = f, !.recommended_value = f]

-----------------------------------------------------------------------------
(* DataContext.                                                            *)

\* DataContext.__init__
DataContextNew(config) ==
    [var_id \in DOMAIN config |-> VariableNew(var_id, config[var_id])]

has_variable(context, var_id) == var_id \in DOMAIN context

\* DataContext.get_variable: the Variable, or KeyError.
get_variable(context, var_id) ==
    IF var_id \notin DOMAIN context
    THEN [ok |-> FALSE, exc |-> "KeyError"]
    ELSE [ok |-> TRUE, v |-> context[var_id]]

\* get_variable on a context that creates what it does not find, as a
\* defaultdict would.
GetVariableCallCreating(context, var_id) ==
    [ok |-> TRUE, exc |-> "none",
     context |-> [id \in DOMAIN context \cup {var_id} |->
                     IF id \in DOMAIN context THEN context[id]
                     ELSE VariableNew(id, [units |-> ""])]]

\* A call of get_variable as the caller sees it: how it ended and the context
\* it left.
GetVariableCall(context, var_id) ==
    LET r == get_variable(context, var_id)
    IN  [ok |-> r.ok, exc |-> IF r.ok THEN "none" ELSE r.exc, context |-> context]

\* The first loop of populate_initial_data over data[from..]: the context it
\* leaves, and the exception of float() that ended it early, if any.
RECURSIVE PopulateSeed(_, _, _)
PopulateSeed(context, data, from) ==
    IF from > Len(data) THEN [ok |-> TRUE, context |-> context]
    ELSE LET var_id == data[from][1]
             value == data[from][2]
         IN  IF ~has_variable(context, var_id)
             THEN PopulateSeed(context, data, from + 1)
             ELSE LET f == PyFloat(value)
                  IN  IF ~f.ok
                      THEN [ok |-> FALSE, exc |-> f.exc, context |-> context]
                      ELSE PopulateSeed(
                               [context EXCEPT ![var_id] = set_initial_value(@, f.v)],
                               data, from + 1)

\* The defaulted types without the branch for Calculated.
DefaultedTypesFirstBranch == {"Delta", "Predicted", "Constraint", "CalculatedKPI"}

\* The types the second loop of populate_initial_data defaults to 0.0.
DefaultedTypes == {"Delta", "Predicted", "Constraint", "CalculatedKPI", "Calculated"}

\* The second loop of populate_initial_data.
PopulateDefaults(context) ==
    [var_id \in DOMAIN context |->
        IF context[var_id].current_value = None
           /\ context[var_id].var_type \in DefaultedTypes
        THEN [context[var_id] EXCEPT !.current_value = MkF(0),
                                     !.dof_value = MkF(0),
                                     !.recommended_value = MkF(0)]
        ELSE context[var_id]]

\* DataContext.populate_initial_data(data), data being the dict's items in order.
populate_initial_data(context, data) ==
    LET seeded == PopulateSeed(context, data, 1)
    IN  IF ~seeded.ok THEN seeded
        ELSE [ok |-> TRUE, context |-> PopulateDefaults(seeded.context)]

-----------------------------------------------------------------------------
(* The parts of the state a specification does not exercise.               *)

NoContext == <<>>
NoCall == [op |-> "none"]
ContextIdle == variables_config = <<>> /\ ctx = NoContext /\ call = NoCall
ConstraintIdle == cons = <<>>
CompositionIdle == comp = <<>> /\ pool = <<>> /\ trace = <<>>
CycleIdle == cfg = <<>> /\ cyc = <<>> /\ opt = <<>> /\ hist = <<>>
SkillsIdle == mf = <<>> /\ inf = <<>>
ServiceIdle == rep = <<>> /\ svc = <<>> /\ app = <<>> /\ cache = <<>>

-----------------------------------------------------------------------------
(* SpecContext: a DataContext under any sequence of calls.                 *)

\* Configurations of the variables section: every type, a variable without a
\* type, a variable with a threshold.
ContextConfigs ==
    {[o |-> [type |-> "Operative", threshold |-> MkF(1)],
      d |-> [type |-> "Delta"],
      k |-> [type |-> "Calculated", threshold |-> MkF(2)]],
     [i |-> [type |-> "Informative"],
      p |-> [type |-> "Predicted"],
      s |-> [type |-> "Constraint"]],
     [o |-> [type |-> "Operative"],
      q |-> [type |-> "CalculatedKPI"],
      u |-> [units |-> "t/h"]]}

\* An id no configuration names.
UnknownId == "zz"
CallIds == {"o", "d", "k", "i", "p", "s", "q", "u", UnknownId}

\* The values a caller hands over: an int, a float, None.
CallValues == {PyInt(1), PyFlt(MkF(2)), PyNone}

\* The live-data maps over the keys ids: the items of a dict in insertion
\* order, no key twice, at most MaxData of them.
DataMaps(ids) ==
    {data \in UNION {[1..n -> ids \X CallValues] : n \in 0..MaxData} :
        \A m, n \in DOMAIN data : m # n => data[m][1] # data[n][1]}

DataKeys(data) == {data[n][1] : n \in DOMAIN data}
DataValue(data, var_id) ==
    data[CHOOSE n \in DOMAIN data : data[n][1] = var_id][2]

CallRecord(op, var_id, value, data, exc, ret, pre) ==
    [op |-> op, var_id |-> var_id, value |-> value, data |-> data,
     exc |-> exc, ret |-> ret, pre |-> pre]

InitContext ==
    /\ variables_config \in ContextConfigs
    /\ ctx = DataContextNew(variables_config)
    /\ call = NoCall
    /\ ConstraintIdle /\ CompositionIdle /\ CycleIdle /\ SkillsIdle /\ ServiceIdle

\* DataContext(variables_config): a fresh context, as at the start of a cycle.
CtxConstruct ==
    /\ call.op # "none"
    /\ ctx' = DataContextNew(variables_config)
    /\ call' = NoCall
    /\ UNCHANGED <<variables_config, consVars, compVars, cycVars, serviceVars, skillVars>>

\* context.populate_initial_data(data), called as run_cycle calls it: on a
\* context no value was written to.
CtxPopulate ==
    /\ ctx = DataContextNew(variables_config)
    /\ \E data \in DataMaps(DOMAIN variables_config \cup {UnknownId}) :
        LET r == populate_initial_data(ctx, data)
        IN  /\ ctx' = r.context
            /\ call' = CallRecord("populate_initial_data", "", PyNone, data,
                                  IF r.ok THEN "none" ELSE r.exc, FALSE, ctx)
    /\ UNCHANGED <<variables_config, consVars, compVars, cycVars, serviceVars, skillVars>>

\* context.get_variable(var_id)
CtxGetVariable ==
    /\ \E var_id \in DOMAIN variables_config \cup {UnknownId} :
        LET r == GetVariableCall(ctx, var_id)
        IN  /\ ctx' = r.context
            /\ call' = CallRecord("get_variable", var_id, PyNone, <<>>,
                                  IF r.ok THEN "none" ELSE r.exc, r.ok, ctx)
    /\ UNCHANGED <<variables_config, consVars, compVars, cycVars, serviceVars, skillVars>>

\* context.has_variable(var_id)
CtxHasVariable ==
    /\ \E var_id \in DOMAIN variables_config \cup {UnknownId} :
        call' = CallRecord("has_variable", var_id, PyNone, <<>>, "none",
                           has_variable(ctx, var_id), ctx)
    /\ UNCHANGED <<variables_config, ctx, consVars, compVars, cycVars, serviceVars, skillVars>>

\* context.get_variable(var_id).set_initial_value(value)
CtxSetInitialValue ==
    /\ \E var_id \in DOMAIN variables_config, value \in CallValues :
        LET f == PyFloat(value)
        IN  /\ ctx' = IF f.ok
                      THEN [ctx EXCEPT ![var_id] = set_initial_value(@, f.v)]
                      ELSE ctx
            /\ call' = CallRecord("set_initial_value", var_id, value, <<>>,
                                  IF f.ok THEN "none" ELSE f.exc, f.ok, ctx)
    /\ UNCHANGED <<variables_config, consVars, compVars, cycVars, serviceVars, skillVars>>

NextContext ==
    \/ CtxConstruct
    \/ CtxPopulate
    \/ CtxGetVariable
    \/ CtxHasVariable
    \/ CtxSetInitialValue

SpecContext == InitContext /\ [][NextContext]_vars

-----------------------------------------------------------------------------
(* Skill and Constraint.                                                   *)

Ok(context) == [ok |-> TRUE, exc |-> "none", context |-> context]
Raise(exc, context) == [ok |-> FALSE, exc |-> exc, context |-> context]

\* Constraint.__init__: the limits, with their defaults.
ConstraintNew(name, config) ==
    LET c == config.config
        var_min == ConfigGet(c, "var_min", NegInf)
        var_max == ConfigGet(c, "var_max", PosInf)
    IN  [name |-> name, class |-> "Constraint",
         inputs |-> config.inputs, outputs |-> config.outputs,
         var_min |-> var_min, var_max |-> var_max,
         op_min |-> ConfigGet(c, "op_min", var_min),
         op_max |-> ConfigGet(c, "op_max", var_max)]

\* calculate_constraint without the hard cutoffs: the ramps are taken whenever
\* the value is outside the operating limits.
calculate_constraint_always_ramp(value, op_min, op_max, phys_min, phys_max) ==
    IF FLe(op_min, value) /\ FLe(value, op_max) THEN [ok |-> TRUE, v |-> MkF(1)]
    ELSE IF FLt(value, op_min)
         THEN FDiv(FSub(value, phys_min), FSub(op_min, phys_min))
    ELSE IF FLt(op_max, value)
         THEN FDiv(FSub(phys_max, value), FSub(phys_max, op_max))
    ELSE [ok |-> TRUE, v |-> MkF(0)]

\* calculate_constraint of Constraint.execute: [ok, v] or the exception of
\* the division.
calculate_constraint(value, op_min, op_max, phys_min, phys_max) ==
    IF FEq(op_min, phys_min) /\ FLt(value, op_min) THEN [ok |-> TRUE, v |-> MkF(0)]
    ELSE IF FEq(op_max, phys_max) /\ FLt(op_max, value) THEN [ok |-> TRUE, v |-> MkF(0)]
    ELSE IF FLe(op_min, value) /\ FLe(value, op_max) THEN [ok |-> TRUE, v |-> MkF(1)]
    ELSE IF FLt(value, op_min) /\ FNe(op_min, phys_min)
         THEN FDiv(FSub(value, phys_min), FSub(op_min, phys_min))
    ELSE IF FLt(op_max, value) /\ FNe(op_max, phys_max)
         THEN FDiv(FSub(phys_max, value), FSub(phys_max, op_max))
    ELSE [ok |-> TRUE, v |-> MkF(0)]

\* Constraint.execute seeding its output with set_initial_value.
ConstraintExecuteSeeding(skill, context) ==
    LET input_var == get_variable(context, skill.inputs[1])
        value == IF input_var.v.dof_value = None THEN MkF(0) ELSE input_var.v.dof_value
        score == calculate_constraint(value, skill.op_min, skill.op_max,
                                      skill.var_min, skill.var_max)
    IN  IF ~input_var.ok THEN Raise(input_var.exc, context)
        ELSE IF ~score.ok THEN Raise(score.exc, context)
        ELSE IF ~has_variable(context, skill.outputs[1]) THEN Raise("KeyError", context)
        ELSE Ok([context EXCEPT ![skill.outputs[1]].dof_value = score.v,
                                ![skill.outputs[1]].current_value = score.v,
                                ![skill.outputs[1]].recommended_value = score.v])

\* Constraint.execute
ConstraintExecute(skill, context) ==
    LET input_var == get_variable(context, skill.inputs[1])
    IN  IF ~input_var.ok THEN Raise(input_var.exc, context)
        ELSE
        LET value == IF input_var.v.dof_value = None THEN MkF(0)
                     ELSE input_var.v.dof_value
            score == calculate_constraint(value, skill.op_min, skill.op_max,
                                          skill.var_min, skill.var_max)
            output_var == get_variable(context, skill.outputs[1])
        IN  IF ~score.ok THEN Raise(score.exc, context)
            ELSE IF ~output_var.ok THEN Raise(output_var.exc, context)
            ELSE Ok([context EXCEPT ![skill.outputs[1]].dof_value = score.v])

-----------------------------------------------------------------------------
(* SpecConstraint: a Constraint skill of any configuration executed on the *)
(* context of a cycle, for any value of its input variable.                *)

ConstraintVariables ==
    [x |-> [type |-> "Operative", threshold |-> MkF(1)],
     s |-> [type |-> "Constraint"]]

\* The limits of the reference configuration: op 10..20 within var 0..30.
ReferenceLimits ==
    [var_min |-> MkF(0), op_min |-> MkF(10), op_max |-> MkF(20), var_max |-> MkF(30)]

\* Limits whose lower operating limit is the physical one: op 10..20 within
\* var 10..30.
DegenerateLimits ==
    [var_min |-> MkF(10), op_min |-> MkF(10), op_max |-> MkF(20), var_max |-> MkF(30)]

\* The config sections of Constraint skills: each limit absent or a value
\* of 0..MaxLimit, the reference configuration and the degenerate one.
LimitKeys == {"var_min", "var_max", "op_min", "op_max"}
ConstraintLimits ==
    {ReferenceLimits, DegenerateLimits}
        \cup UNION {[keys -> {MkF(n) : n \in 0..MaxLimit}] : keys \in SUBSET LimitKeys}

\* The live values of the input variable.
ConstraintInputs ==
    {MkF(n) : n \in -1..(MaxLimit + 1)}
        \cup {Ratio(2 * n + 1, 2) : n \in 0..(MaxLimit - 1)}
        \cup {MkF(-10), MkF(5), MkF(10), MkF(20), MkF(25), MkF(40)}

\* The input variable is absent from the live data (its dof_value is None) or
\* has one of the live values.
InitConstraint ==
    /\ variables_config = ConstraintVariables
    /\ \E limits \in ConstraintLimits :
        cons = ConstraintNew("constraint_x",
                             [class |-> "Constraint", inputs |-> <<"x">>,
                              outputs |-> <<"s">>, config |-> limits])
    /\ \E data \in {<<>>} \cup {<<<<"x", PyFlt(value)>>>> : value \in ConstraintInputs} :
        ctx = populate_initial_data(DataContextNew(variables_config), data).context
    /\ call = NoCall
    /\ CompositionIdle /\ CycleIdle /\ SkillsIdle /\ ServiceIdle

\* skill.execute(context)
ConsExecute ==
    /\ LET r == ConstraintExecute(cons, ctx)
       IN  /\ ctx' = r.context
           /\ call' = CallRecord("execute", cons.name, PyNone, <<>>, r.exc, r.ok, ctx)
    /\ UNCHANGED <<variables_config, cons, compVars, cycVars, serviceVars, skillVars>>

NextConstraint == ConsExecute

SpecConstraint == InitConstraint /\ [][NextConstraint]_vars

-----------------------------------------------------------------------------
(* CompositionSkill.execute with its worker pool (SpecComposition).        *)
(*                                                                         *)
(* comp.seq is the resolved skill_sequence, each skill by its class.       *)
(* pool[p] follows the execution of the skill at position p: "idle", then  *)
(* for an InferenceModel "queued" (submitted), "taken" (a worker thread    *)
(* has taken it off the work queue), "running" (its execute has begun),    *)
(* and "done" (execute returned) or "failed" (execute raised).             *)

\* A pool with a thread for every member of the batch
\* (max_workers=len(inference_group)).
MaxWorkersPerMember == MaxSeq + 1

\* self.max_workers
MaxWorkers == 4

SkillClasses == {"InferenceModel", "MathFunction"}

\* isinstance(skill, InferenceModel)
IsInferenceModel(class) == class = "InferenceModel"

\* The inner while of execute swallowing the skill that follows the run.
InferenceGroupEndOffByOne(seq, i) ==
    LET stops == {j \in i..Len(seq) : ~IsInferenceModel(seq[j])}
    IN  IF stops = {} THEN Len(seq) + 1
        ELSE (CHOOSE j \in stops : \A m \in stops : j <= m) + 1

\* The inner while of execute: the first position at or after i that holds no
\* InferenceModel (Len(seq) + 1 if there is none).
InferenceGroupEnd(seq, i) ==
    LET stops == {j \in i..Len(seq) : ~IsInferenceModel(seq[j])}
    IN  IF stops = {} THEN Len(seq) + 1
        ELSE CHOOSE j \in stops : \A m \in stops : j <= m

Finished(p) == pool[p] \in {"done", "failed"}
Begun(p) == pool[p] \in {"running", "done", "failed"}
Batch == comp.first..comp.last

\* executor.shutdown(wait=False) in place of the with block's exit.
ShutdownReturnsNoWait == TRUE

\* The exit of the with block, executor.shutdown(wait=True), returns once
\* every submitted work item has run.
ShutdownReturns == \A p \in Batch : Finished(p)

InitComposition ==
    /\ \E seq \in UNION {[1..n -> SkillClasses] : n \in 0..MaxSeq} :
        /\ comp = [seq |-> seq, pc |-> "loop", i |-> 1, first |-> 1, last |-> 0,
                   next |-> 1, exc |-> FALSE]
        /\ pool = [p \in 1..Len(seq) |-> "idle"]
    /\ trace = {}
    /\ ContextIdle /\ ConstraintIdle /\ CycleIdle /\ SkillsIdle /\ ServiceIdle

\* while i < len(self.skill_sequence): the loop ends, execute returns.
CompReturn ==
    /\ comp.pc = "loop" /\ comp.i > Len(comp.seq)
    /\ comp' = [comp EXCEPT !.pc = "returned"]
    /\ UNCHANGED <<pool, trace, ctxVars, consVars, cycVars, serviceVars, skillVars>>

\* A skill that is no InferenceModel: skill.execute(context) is entered.
CompSequentialBegin ==
    /\ comp.pc = "loop" /\ comp.i <= Len(comp.seq)
    /\ ~IsInferenceModel(comp.seq[comp.i])
    /\ pool' = [pool EXCEPT ![comp.i] = "running"]
    /\ comp' = [comp EXCEPT !.pc = "sequential"]
    /\ UNCHANGED <<trace, ctxVars, consVars, cycVars, serviceVars, skillVars>>

\* skill.execute(context) returns: i += 1; continue.
CompSequentialReturns ==
    /\ comp.pc = "sequential"
    /\ pool' = [pool EXCEPT ![comp.i] = "done"]
    /\ comp' = [comp EXCEPT !.pc = "loop", !.i = @ + 1]
    /\ UNCHANGED <<trace, ctxVars, consVars, cycVars, serviceVars, skillVars>>

\* skill.execute(context) raises: the exception leaves execute.
CompSequentialRaises ==
    /\ comp.pc = "sequential"
    /\ pool' = [pool EXCEPT ![comp.i] = "failed"]
    /\ comp' = [comp EXCEPT !.pc = "raised"]
    /\ UNCHANGED <<trace, ctxVars, consVars, cycVars, serviceVars, skillVars>>

\* The consecutive InferenceModels from i on are collected and the with
\* block is entered.
CompCollectGroup ==
    /\ comp.pc = "loop" /\ comp.i <= Len(comp.seq)
    /\ IsInferenceModel(comp.seq[comp.i])
    /\ LET end == InferenceGroupEnd(comp.seq, comp.i)
       IN  comp' = [comp EXCEPT !.pc = "submit", !.first = comp.i,
                                !.last = end - 1, !.next = comp.i, !.i = end]
    /\ UNCHANGED <<pool, trace, ctxVars, consVars, cycVars, serviceVars, skillVars>>

\* executor.submit(inf_model.execute, context), for each member in order.
CompSubmit ==
    /\ comp.pc = "submit"
    /\ pool' = [pool EXCEPT ![comp.next] = "queued"]
    /\ comp' = IF comp.next = comp.last
               THEN [comp EXCEPT !.pc = "collect", !.next = comp.first]
               ELSE [comp EXCEPT !.next = @ + 1]
    /\ UNCHANGED <<trace, ctxVars, consVars, cycVars, serviceVars, skillVars>>

\* A worker thread takes the oldest work item off the queue; the pool has at
\* most max_workers threads.
WorkerTake ==
    /\ \E p \in DOMAIN pool :
        /\ pool[p] = "queued"
        /\ \A q \in DOMAIN pool : pool[q] = "queued" => p <= q
        /\ Cardinality({q \in DOMAIN pool : pool[q] \in {"taken", "running"}}) < MaxWorkers
        /\ pool' = [pool EXCEPT ![p] = "taken"]
    /\ UNCHANGED <<comp, trace, ctxVars, consVars, cycVars, serviceVars, skillVars>>

\* The worker thread enters inf_model.execute(context).
WorkerBegin ==
    /\ \E p \in DOMAIN pool :
        /\ pool[p] = "taken"
        /\ pool' = [pool EXCEPT ![p] = "running"]
    /\ UNCHANGED <<comp, trace, ctxVars, consVars, cycVars, serviceVars, skillVars>>

\* inf_model.execute(context) returns in its worker thread.
WorkerReturns ==
    /\ \E p \in DOMAIN pool :
        /\ pool[p] = "running" /\ IsInferenceModel(comp.seq[p])
        /\ pool' = [pool EXCEPT ![p] = "done"]
    /\ UNCHANGED <<comp, trace, ctxVars, consVars, cycVars, serviceVars, skillVars>>

\* inf_model.execute(context) raises in its worker thread: the future holds
\* the exception.
WorkerRaises ==
    /\ \E p \in DOMAIN pool :
        /\ pool[p] = "running" /\ IsInferenceModel(comp.seq[p])
        /\ pool' = [pool EXCEPT ![p] = "failed"]
    /\ UNCHANGED <<comp, trace, ctxVars, consVars, cycVars, serviceVars, skillVars>>

\* future.result() returns for the next future: on to the one after it, or
\* out of the with block after the last.
CompFutureResultReturns ==
    /\ comp.pc = "collect"
    /\ pool[comp.next] = "done"
    /\ comp' = IF comp.next = comp.last
               THEN [comp EXCEPT !.pc = "shutdown"]
               ELSE [comp EXCEPT !.next = @ + 1]
    /\ UNCHANGED <<pool, trace, ctxVars, consVars, cycVars, serviceVars, skillVars>>

\* future.result() raises the exception of the next future: it is logged and
\* raised again, out of the loop and the with block.
CompFutureResultRaises ==
    /\ comp.pc = "collect"
    /\ pool[comp.next] = "failed"
    /\ trace' = trace \cup {comp.next}
    /\ comp' = [comp EXCEPT !.pc = "shutdown", !.exc = TRUE]
    /\ UNCHANGED <<pool, ctxVars, consVars, cycVars, serviceVars, skillVars>>

\* The with block is left: after the shutdown, the sequence continues or the
\* pending exception leaves execute.
CompShutdown ==
    /\ comp.pc = "shutdown"
    /\ ShutdownReturns
    /\ comp' = [comp EXCEPT !.pc = IF comp.exc THEN "raised" ELSE "loop"]
    /\ UNCHANGED <<pool, trace, ctxVars, consVars, cycVars, serviceVars, skillVars>>

NextComposition ==
    \/ CompReturn
    \/ CompSequentialBegin
    \/ CompSequentialReturns
    \/ CompSequentialRaises
    \/ CompCollectGroup
    \/ CompSubmit
    \/ WorkerTake
    \/ WorkerBegin
    \/ WorkerReturns
    \/ WorkerRaises
    \/ CompFutureResultReturns
    \/ CompFutureResultRaises
    \/ CompShutdown

SpecComposition == InitComposition /\ [][NextComposition]_vars

-----------------------------------------------------------------------------
(* MathFunction.                                                           *)
(*                                                                         *)
(* A formula is an expression tree: <<"num", f>>, <<"sym", var_id, suffix>>*)
(* for the symbol var_id + suffix ("_dof", "_current", "_threshold" or ""),*)
(* <<"name", n>> for any other name, and <<op, left, right>> for the       *)
(* operators "+", "-", "*" and "/".  <<"none">> is the expression None and  *)
(* <<"malformed">> a string that does not parse.                           *)

\* The symbols MathFunction.execute enters into the interpreter's symbol
\* table for its inputs, with their values.
SymbolTable(inputs, context) ==
    LET ids == {inputs[n] : n \in DOMAIN inputs}
        dof(id) == IF context[id].dof_value # None THEN context[id].dof_value ELSE MkF(0)
        cur(id) == IF context[id].current_value # None THEN context[id].current_value
                   ELSE MkF(0)
        syms == {<<id, "_dof">> : id \in ids} \cup {<<id, "_current">> : id \in ids}
                    \cup {<<id, "">> : id \in ids}
                    \cup {<<id, "_threshold">> : id \in {i \in ids : context[i].threshold # MkF(0)}}
    IN  [sym \in syms |->
            CASE sym[2] = "_dof" -> dof(sym[1])
              [] sym[2] = "_current" -> cur(sym[1])
              [] sym[2] = "_threshold" -> context[sym[1]].threshold
              [] OTHER -> dof(sym[1])]

\* aeval.eval(formula, show_errors=False): the value, or None when the
\* interpreter recorded an error (an undefined name, a None operand, a
\* division by zero).
RECURSIVE AEval(_, _)
AEval(e, symtable) ==
    CASE e[1] = "num" -> e[2]
      [] e[1] = "none" -> None
      [] e[1] = "malformed" -> None
      [] e[1] = "sym" -> IF <<e[2], e[3]>> \in DOMAIN symtable
                         THEN symtable[<<e[2], e[3]>>] ELSE None
      [] e[1] = "name" -> None
      [] OTHER ->
            LET l == AEval(e[2], symtable)
                r == AEval(e[3], symtable)
            IN  IF l = None \/ r = None THEN None
                ELSE CASE e[1] = "+" -> FAdd(l, r)
                       [] e[1] = "-" -> FSub(l, r)
                       [] e[1] = "*" -> FMul(l, r)
                       [] e[1] = "/" -> LET q == FDiv(l, r)
                                        IN  IF q.ok THEN q.v ELSE None

\* The inputs the loop of execute reaches: all of them, or those before the
\* first one get_variable raises KeyError for.
ReachedInputs(inputs, context) ==
    LET unknown == {n \in DOMAIN inputs : ~has_variable(context, inputs[n])}
    IN  IF unknown = {} THEN inputs
        ELSE SubSeq(inputs, 1, (CHOOSE n \in unknown : \A m \in unknown : n <= m) - 1)

\* self.aeval.symtable[...] = ...: the interpreter's symbol table after the
\* loop over the inputs; symbols of earlier executions stay.
UpdateSymtable(symtable, inputs, context) ==
    LET entered == SymbolTable(ReachedInputs(inputs, context), context)
    IN  [sym \in DOMAIN symtable \cup DOMAIN entered |->
            IF sym \in DOMAIN entered THEN entered[sym] ELSE symtable[sym]]

MathFunctionReturn(ok, exc, context, symtable) ==
    [ok |-> ok, exc |-> exc, context |-> context, symtable |-> symtable]

\* execute letting an evaluation error out (no fail-soft substitution).
MathFunctionExecuteUncaught(skill, symtable, context) ==
    LET table == UpdateSymtable(symtable, skill.inputs, context)
        evaluated == AEval(skill.config.formula, table)
    IN  IF \E n \in DOMAIN skill.inputs : ~has_variable(context, skill.inputs[n])
        THEN MathFunctionReturn(FALSE, "KeyError", context, table)
        ELSE IF evaluated = None
        THEN MathFunctionReturn(FALSE, "Exception", context, table)
        ELSE IF skill.outputs = <<>> THEN MathFunctionReturn(TRUE, "none", context, table)
        ELSE IF ~has_variable(context, skill.outputs[1])
        THEN MathFunctionReturn(FALSE, "KeyError", context, table)
        ELSE MathFunctionReturn(TRUE, "none",
                 [context EXCEPT ![skill.outputs[1]].dof_value = evaluated], table)

\* execute adding the result to the output (+= for =).
MathFunctionExecuteAccumulating(skill, symtable, context) ==
    LET table == UpdateSymtable(symtable, skill.inputs, context)
        evaluated == AEval(skill.config.formula, table)
        result == IF evaluated = None THEN MkF(0) ELSE evaluated
    IN  IF \E n \in DOMAIN skill.inputs : ~has_variable(context, skill.inputs[n])
        THEN MathFunctionReturn(FALSE, "KeyError", context, table)
        ELSE IF skill.outputs = <<>> THEN MathFunctionReturn(TRUE, "none", context, table)
        ELSE IF ~has_variable(context, skill.outputs[1])
        THEN MathFunctionReturn(FALSE, "KeyError", context, table)
        ELSE MathFunctionReturn(TRUE, "none",
                 [context EXCEPT ![skill.outputs[1]].dof_value =
                      IF @ = None THEN result ELSE FAdd(@, result)], table)

\* MathFunction.execute on the skill whose interpreter holds symtable: the
\* outcome, the context and the interpreter's symbol table afterwards.
MathFunctionExecuteWith(skill, symtable, context) ==
    LET table == UpdateSymtable(symtable, skill.inputs, context)
        evaluated == AEval(skill.config.formula, table)
        result == IF evaluated = None THEN MkF(0) ELSE evaluated
    IN  IF \E n \in DOMAIN skill.inputs : ~has_variable(context, skill.inputs[n])
        THEN MathFunctionReturn(FALSE, "KeyError", context, table)
        ELSE IF skill.outputs = <<>> THEN MathFunctionReturn(TRUE, "none", context, table)
        ELSE IF ~has_variable(context, skill.outputs[1])
        THEN MathFunctionReturn(FALSE, "KeyError", context, table)
        ELSE MathFunctionReturn(TRUE, "none",
                 [context EXCEPT ![skill.outputs[1]].dof_value = result], table)

\* MathFunction.execute of a skill whose interpreter is fresh.
MathFunctionExecute(skill, context) ==
    LET r == MathFunctionExecuteWith(skill, <<>>, context)
    IN  IF r.ok THEN Ok(r.context) ELSE Raise(r.exc, r.context)

-----------------------------------------------------------------------------
(* SpecFormula: one MathFunction skill executed repeatedly on a context,   *)
(* other writers changing its inputs in between.                           *)
(*                                                                         *)
(* mf.skill is the skill, mf.symtable its interpreter's symbol table,      *)
(* mf.runs the executions so far: how each ended, the output dof_value     *)
(* after it, and whether the context was written by another writer since   *)
(* the execution before.                                                   *)

\* a and b Operative (b without a threshold, so b_threshold is never a
\* symbol), t with a null threshold, k the Calculated output.
FormulaVariables ==
    [a |-> [type |-> "Operative", threshold |-> MkF(1)],
     b |-> [type |-> "Operative"],
     t |-> [type |-> "Operative", threshold |-> None],
     k |-> [type |-> "Calculated"]]

FormulaNames ==
    {"sum", "scaled", "undefined_symbol", "undefined_name", "zero_division",
     "none_operand", "none_result", "malformed", "feedback", "unknown_input",
     "no_output"}

\* The formula of each skill configuration.
FormulaOf(name) ==
    CASE name = "sum" -> <<"+", <<"sym", "a", "">>, <<"sym", "b", "">>>>
      [] name = "scaled" ->
            <<"-", <<"*", <<"sym", "a", "_dof">>, <<"sym", "a", "_threshold">>>>,
                   <<"sym", "b", "_current">>>>
      [] name = "undefined_symbol" ->
            <<"+", <<"sym", "a", "">>, <<"sym", "b", "_threshold">>>>
      [] name = "undefined_name" -> <<"*", <<"name", "gain">>, <<"sym", "a", "">>>>
      [] name = "zero_division" ->
            <<"/", <<"sym", "a", "">>,
                   <<"-", <<"sym", "b", "_dof">>, <<"sym", "b", "_dof">>>>>>
      [] name = "none_operand" ->
            <<"+", <<"sym", "a", "">>, <<"sym", "t", "_threshold">>>>
      [] name = "none_result" -> <<"none">>
      [] name = "malformed" -> <<"malformed">>
      [] name = "feedback" -> <<"+", <<"sym", "k", "">>, <<"sym", "a", "">>>>
      [] OTHER -> <<"+", <<"sym", "a", "">>, <<"num", MkF(1)>>>>

\* The configuration of each skill: "feedback" reads its own output,
\* "unknown_input" names an input no variable is configured for, "no_output"
\* has no outputs.
FormulaSkill(name) ==
    [class |-> "MathFunction",
     inputs |-> CASE name = "feedback" -> <<"k", "a">>
                  [] name = "unknown_input" -> <<"a", UnknownId, "b">>
                  [] OTHER -> <<"a", "b", "t">>,
     outputs |-> IF name = "no_output" THEN <<>> ELSE <<"k">>,
     config |-> [formula |-> FormulaOf(name)]]

\* The live data: a and b each absent or measured.
FormulaData ==
    {SelectSeq(<< <<"a", PyInt(va)>>, <<"b", PyFlt(MkF(vb))>> >>,
               LAMBDA item : item[2].v # <<0>> /\ item[2].v # MkF(0)) :
        va \in 0..MaxData, vb \in 0..1}

InitFormula ==
    /\ variables_config = FormulaVariables
    /\ \E data \in FormulaData :
          ctx = populate_initial_data(DataContextNew(variables_config), data).context
    /\ call = NoCall
    /\ \E name \in FormulaNames :
          mf = [name |-> name, skill |-> FormulaSkill(name), symtable |-> <<>>,
                runs |-> <<>>, written |-> FALSE]
    /\ inf = <<>>
    /\ ConstraintIdle /\ CompositionIdle /\ CycleIdle /\ ServiceIdle

\* skill.execute(context)
MfExecute ==
    /\ Len(mf.runs) < MaxRuns
    /\ LET r == MathFunctionExecuteWith(mf.skill, mf.symtable, ctx)
       IN  /\ ctx' = r.context
           /\ mf' = [mf EXCEPT !.symtable = r.symtable,
                               !.written = FALSE,
                               !.runs = Append(@, [ok |-> r.ok, exc |-> r.exc,
                                                   out |-> r.context["k"].dof_value,
                                                   clean |-> ~mf.written])]
    /\ UNCHANGED <<variables_config, call, inf, consVars, compVars, cycVars, serviceVars>>

\* Another writer sets the dof_value of a variable.
MfOtherWrite ==
    /\ Len(mf.runs) < MaxRuns
    /\ ~mf.written
    /\ \E var_id \in {"a", "k"}, value \in {MkF(n) : n \in 1..MaxData} :
          /\ ctx[var_id].dof_value # value
          /\ ctx' = [ctx EXCEPT ![var_id].dof_value = value]
    /\ mf' = [mf EXCEPT !.written = TRUE]
    /\ UNCHANGED <<variables_config, call, inf, consVars, compVars, cycVars, serviceVars>>

NextFormula ==
    \/ MfExecute
    \/ MfOtherWrite

SpecFormula == InitFormula /\ [][NextFormula]_vars

-----------------------------------------------------------------------------
(* InferenceModel.                                                         *)
(*                                                                         *)
(* What the artifact store does on one load of the model or of the scaler  *)
(* is an outcome: the problem there is ("none", "missing": the temp file   *)
(* or cache entry is gone or stale, "corrupted", "absent": no such object  *)
(* in the bucket), the exception class the load raises and what the text   *)
(* of the exception contains.                                              *)

LoadOutcome(problem, exc, no_such_file, pth, corrupted) ==
    [problem |-> problem, exc |-> exc, no_such_file |-> no_such_file,
     pth |-> pth, corrupted |-> corrupted]

LoadOk == LoadOutcome("none", "none", FALSE, FALSE, FALSE)
\* Path(local_model_path).exists() is False: "Downloaded temp file missing: <path>.pth"
TempFileMissingAtCheck == LoadOutcome("missing", "FileNotFoundError", FALSE, TRUE, FALSE)
\* torch.load: "[Errno 2] No such file or directory: '<path>.pth'"
TempFileMissingAtLoad == LoadOutcome("missing", "FileNotFoundError", TRUE, TRUE, FALSE)
\* torch.load or load_state_dict fails on the content of the file
ModelCorrupted == LoadOutcome("corrupted", "RuntimeError", FALSE, TRUE, FALSE)
\* get_pytorch_model: "Model file <path>.pth not found in MinIO bucket <bucket>"
ModelNotInStore == LoadOutcome("absent", "FileNotFoundError", FALSE, TRUE, FALSE)
\* get_pickle_scaler fails with a text naming the corruption or the missing file
ScalerCorruptedSaid == LoadOutcome("corrupted", "Exception", FALSE, FALSE, TRUE)
ScalerMissingSaid == LoadOutcome("missing", "Exception", TRUE, FALSE, FALSE)
\* get_pickle_scaler: "Error deserializing pickle scaler: invalid load key ..."
ScalerCorruptedUnsaid == LoadOutcome("corrupted", "Exception", FALSE, FALSE, FALSE)
\* get_pickle_scaler: "Scaler file <path> not found in MinIO bucket <bucket>"
ScalerNotInStore == LoadOutcome("absent", "FileNotFoundError", FALSE, FALSE, FALSE)

\* What _load_model_and_scaler leaves: the attributes (TRUE: set), the loads
\* attempted and the cache invalidations made for each artifact.
Loaded(model, scaler, metadata, loads, invalidated) ==
    [model |-> model, scaler |-> scaler, metadata |-> metadata,
     loads |-> loads, invalidated |-> invalidated]

\* except FileNotFoundError as e:
\*     if "No such file or directory" in str(e) and ".pth" in str(e)
ModelRetries(e) == e.exc = "FileNotFoundError" /\ e.no_such_file /\ e.pth

\* except Exception as e:
\*     if "No such file or directory" in str(e) or "corrupted" in str(e).lower()
ScalerRetries(e) == e.exc # "none" /\ (e.no_such_file \/ e.corrupted)

\* _load_model_and_scaler whose except clause leaves the attributes as the
\* failed load found them.
load_model_and_scaler_no_reset(config, store) ==
    LET m1 == store.model[1]
        m2 == store.model[2]
        s1 == store.scaler[1]
        s2 == store.scaler[2]
        has_model == config.model_path # None
        has_scaler == config.scaler_path # None
        has_metadata == config.metadata_path # None
        model_retried == has_model /\ m1 # LoadOk /\ ModelRetries(m1)
        model_ok == ~has_model \/ m1 = LoadOk \/ (model_retried /\ m2 = LoadOk)
        scaler_tried == model_ok /\ has_scaler
        scaler_retried == scaler_tried /\ s1 # LoadOk /\ ScalerRetries(s1)
        scaler_ok == model_ok
                     /\ (~has_scaler \/ s1 = LoadOk \/ (scaler_retried /\ s2 = LoadOk))
        metadata_ok == scaler_ok /\ (~has_metadata \/ store.metadata = LoadOk)
        loads == [model |-> IF ~has_model THEN 0 ELSE IF model_retried THEN 2 ELSE 1,
                  scaler |-> IF ~scaler_tried THEN 0 ELSE IF scaler_retried THEN 2 ELSE 1]
        invalidated == [model |-> IF model_retried /\ store.cache THEN 1 ELSE 0,
                        scaler |-> IF scaler_retried /\ store.cache THEN 1 ELSE 0]
    IN  Loaded(has_model /\ model_ok, has_scaler /\ scaler_ok,
               has_metadata /\ metadata_ok, loads, invalidated)

\* InferenceModel._load_model_and_scaler: store gives the outcomes of the
\* first load and of a retry for the model and for the scaler, the outcome
\* of the metadata load, and whether a strategy cache is there.
load_model_and_scaler(config, store) ==
    LET m1 == store.model[1]
        m2 == store.model[2]
        s1 == store.scaler[1]
        s2 == store.scaler[2]
        has_model == config.model_path # None
        has_scaler == config.scaler_path # None
        has_metadata == config.metadata_path # None
        model_retried == has_model /\ m1 # LoadOk /\ ModelRetries(m1)
        model_ok == ~has_model \/ m1 = LoadOk \/ (model_retried /\ m2 = LoadOk)
        scaler_tried == model_ok /\ has_scaler
        scaler_retried == scaler_tried /\ s1 # LoadOk /\ ScalerRetries(s1)
        scaler_ok == model_ok
                     /\ (~has_scaler \/ s1 = LoadOk \/ (scaler_retried /\ s2 = LoadOk))
        metadata_ok == scaler_ok /\ (~has_metadata \/ store.metadata = LoadOk)
        loads == [model |-> IF ~has_model THEN 0
                            ELSE IF model_retried THEN 2 ELSE 1,
                  scaler |-> IF ~scaler_tried THEN 0
                             ELSE IF scaler_retried THEN 2 ELSE 1]
        invalidated == [model |-> IF model_retried /\ store.cache THEN 1 ELSE 0,
                        scaler |-> IF scaler_retried /\ store.cache THEN 1 ELSE 0]
    IN  IF metadata_ok
        THEN Loaded(has_model, has_scaler, has_metadata, loads, invalidated)
        ELSE Loaded(FALSE, FALSE, FALSE, loads, invalidated)

\* What self.model(model_inputs) and the scalers give for one execute: a
\* difference prediction, or an exception during inference.
InferenceRaises == [raises |-> TRUE, v |-> NaN]
Predictions == {InferenceRaises} \cup {[raises |-> FALSE, v |-> MkF(n)] : n \in -1..1}

\* InferenceModel._predict_with_nn
predict_with_nn(skill, input_values, context, prediction) ==
    IF \E n \in DOMAIN input_values : input_values[n] = None THEN MkF(0)
    ELSE IF prediction.raises THEN MkF(0)
    ELSE IF ~has_variable(context, skill.outputs[1]) THEN MkF(0)
    ELSE LET current_target_var == context[skill.outputs[1]]
             current_target_value == IF current_target_var.current_value # None
                                     THEN current_target_var.current_value ELSE MkF(0)
         IN  FAdd(current_target_value, prediction.v)

\* The value execute appends to input_values for one input: the delta of a
\* Delta variable (TypeError when a slot is None), 0 for any other.
InputValue(var) ==
    IF var.var_type = "Delta"
    THEN IF var.dof_value = None \/ var.current_value = None
         THEN [ok |-> FALSE, exc |-> "TypeError"]
         ELSE [ok |-> TRUE, v |-> FSub(var.dof_value, var.current_value)]
    ELSE [ok |-> TRUE, v |-> MkF(0)]

\* The exception the loop over the inputs ends with: that of the first input
\* get_variable or the subtraction raises for, or "none".
RECURSIVE InputError(_, _, _)
InputError(inputs, context, n) ==
    IF n > Len(inputs) THEN "none"
    ELSE IF ~has_variable(context, inputs[n]) THEN "KeyError"
    ELSE IF ~InputValue(context[inputs[n]]).ok THEN InputValue(context[inputs[n]]).exc
    ELSE InputError(inputs, context, n + 1)

\* InferenceModel.execute; skill.model and skill.scaler tell whether the
\* attributes are set.
InferenceModelExecute(skill, context, prediction) ==
    IF InputError(skill.inputs, context, 1) # "none"
    THEN Raise(InputError(skill.inputs, context, 1), context)
    ELSE
    LET input_values == [n \in DOMAIN skill.inputs |->
                            InputValue(context[skill.inputs[n]]).v]
        result == IF skill.model /\ skill.scaler
                  THEN predict_with_nn(skill, input_values, context, prediction)
                  ELSE MkF(0)
    IN  IF ~has_variable(context, skill.outputs[1]) THEN Raise("KeyError", context)
        ELSE Ok([context EXCEPT ![skill.outputs[1]].dof_value = result])

-----------------------------------------------------------------------------
(* SpecInference: an InferenceModel constructed against an artifact store  *)
(* and executed repeatedly on a context.                                   *)
(*                                                                         *)
(* inf.config is the skill configuration, inf.store what the store does on *)
(* each load, inf.skill the attributes after construction, inf.runs the    *)
(* executions: how each ended, the output dof_value after it, whether an   *)
(* input slot was null and whether inference raised.                       *)

\* d a Delta input, i an Informative input, y the Predicted output.
InferenceVariables ==
    [d |-> [type |-> "Delta"],
     i |-> [type |-> "Informative"],
     y |-> [type |-> "Predicted"]]

InferenceConfig(with_paths) ==
    [class |-> "InferenceModel", inputs |-> <<"d", "i">>, outputs |-> <<"y">>,
     model_path |-> IF with_paths THEN <<"model.pth">> ELSE None,
     scaler_path |-> IF with_paths THEN <<"scaler.pkl">> ELSE None,
     metadata_path |-> IF with_paths THEN <<"metadata.json">> ELSE None]

ModelFirstOutcomes ==
    {LoadOk, TempFileMissingAtCheck, TempFileMissingAtLoad, ModelCorrupted, ModelNotInStore}
ModelRetryOutcomes == {LoadOk, TempFileMissingAtLoad, ModelCorrupted}
ScalerFirstOutcomes ==
    {LoadOk, ScalerCorruptedSaid, ScalerMissingSaid, ScalerCorruptedUnsaid, ScalerNotInStore}
ScalerRetryOutcomes == {LoadOk, ScalerCorruptedUnsaid}
MetadataOutcomes == {LoadOk, LoadOutcome("absent", "Exception", FALSE, FALSE, FALSE)}

\* The stores: any outcome of each load, with or without a strategy cache.
Stores ==
    [model : ModelFirstOutcomes \X ModelRetryOutcomes,
     scaler : ScalerFirstOutcomes \X ScalerRetryOutcomes,
     metadata : MetadataOutcomes,
     cache : BOOLEAN]

\* The contexts run_cycle hands to the skills: populated from live data in
\* which d, i and y are measured or not.
InferenceContexts ==
    {populate_initial_data(DataContextNew(InferenceVariables), data).context :
        data \in {<<>>,
                  << <<"i", PyInt(1)>> >>,
                  << <<"d", PyInt(1)>>, <<"i", PyFlt(MkF(2))>>, <<"y", PyInt(1)>> >>}}

NotBuilt == <<>>

InitInference ==
    /\ variables_config = InferenceVariables
    /\ ctx \in InferenceContexts
    /\ call = NoCall
    /\ mf = <<>>
    /\ \E with_paths \in BOOLEAN, store \in Stores :
          /\ ~with_paths =>
                store = [model |-> <<LoadOk, LoadOk>>, scaler |-> <<LoadOk, LoadOk>>,
                         metadata |-> LoadOk, cache |-> TRUE]
          /\ inf = [config |-> InferenceConfig(with_paths), store |-> store,
                    skill |-> NotBuilt, runs |-> <<>>]
    /\ ConstraintIdle /\ CompositionIdle /\ CycleIdle /\ ServiceIdle

\* InferenceModel.__init__
InfConstruct ==
    /\ inf.skill = NotBuilt
    /\ LET loaded == load_model_and_scaler(inf.config, inf.store)
       IN  inf' = [inf EXCEPT !.skill =
                      [inputs |-> inf.config.inputs, outputs |-> inf.config.outputs,
                       model |-> loaded.model, scaler |-> loaded.scaler,
                       metadata |-> loaded.metadata, loads |-> loaded.loads,
                       invalidated |-> loaded.invalidated]]
    /\ UNCHANGED <<ctxVars, mf, consVars, compVars, cycVars, serviceVars>>

\* skill.execute(context)
InfExecute ==
    /\ inf.skill # NotBuilt
    /\ Len(inf.runs) < MaxRuns
    /\ \E prediction \in Predictions :
          LET r == InferenceModelExecute(inf.skill, ctx, prediction)
          IN  /\ ctx' = r.context
              /\ inf' = [inf EXCEPT !.runs = Append(@,
                            [ok |-> r.ok, exc |-> r.exc,
                             out |-> r.context["y"].dof_value,
                             null_input |-> \E n \in DOMAIN inf.skill.inputs :
                                               \/ ctx[inf.skill.inputs[n]].dof_value = None
                                               \/ ctx[inf.skill.inputs[n]].current_value = None,
                             raised |-> prediction.raises,
                             loads |-> inf.skill.loads])]
    /\ UNCHANGED <<variables_config, call, mf, consVars, compVars, cycVars, serviceVars>>

\* Another writer (the objective of the optimizer) sets the dof_value of d.
InfOtherWrite ==
    /\ inf.skill # NotBuilt
    /\ Len(inf.runs) < MaxRuns
    /\ \E value \in {MkF(n) : n \in 1..MaxData} :
          /\ ctx["d"].dof_value # value
          /\ ctx["d"].current_value # None
          /\ ctx' = [ctx EXCEPT !["d"].dof_value = value]
    /\ UNCHANGED <<variables_config, call, mf, inf, consVars, compVars, cycVars, serviceVars>>

NextInference ==
    \/ InfConstruct
    \/ InfExecute
    \/ InfOtherWrite

SpecInference == InitInference /\ [][NextInference]_vars

-----------------------------------------------------------------------------
(* Skills executed from their configuration; CompositionSkill.             *)

RECURSIVE ExecuteSkill(_, _, _)
RECURSIVE ExecuteSequence(_, _, _, _)

\* CompositionSkill.execute on a sequence that holds no InferenceModel: each
\* skill in order from position i, the first exception ending it.
ExecuteSequence(skills, names, i, context) ==
    IF i > Len(names) THEN Ok(context)
    ELSE LET r == ExecuteSkill(skills, names[i], context)
         IN  IF ~r.ok THEN r
             ELSE ExecuteSequence(skills, names, i + 1, r.context)

\* skill.execute(context) of the skill built from skills[name].
ExecuteSkill(skills, name, context) ==
    LET config == skills[name]
    IN  CASE config.class = "MathFunction" -> MathFunctionExecute(config, context)
          [] config.class = "Constraint" ->
                ConstraintExecute(ConstraintNew(name, config), context)
          [] config.class = "CompositionSkill" ->
                ExecuteSequence(skills, config.config.skill_sequence, 1, context)

-----------------------------------------------------------------------------
(* OptimizationStrategy: the sets computed from the configuration.         *)

\* get_operative_variable_ids
get_operative_variable_ids(variables) ==
    {var_id \in DOMAIN variables : variables[var_id].type = "Operative"}

\* get_calculated_variable_ids
get_calculated_variable_ids(variables) ==
    {var_id \in DOMAIN variables : variables[var_id].type = "Calculated"}

PreCalculationTaskName == "PreCalculateVariables"

\* get_fixed_input_variable_ids: the inputs of the skills the first Task
\* named PreCalculateVariables lists.
get_fixed_input_variable_ids(config) ==
    LET named == {t \in DOMAIN config.tasks :
                     config.tasks[t].name = PreCalculationTaskName}
    IN  IF named = {} THEN {}
        ELSE LET precalc_task == config.tasks[CHOOSE t \in named : \A u \in named : t <= u]
                 sequence == precalc_task.skill_sequence
             IN  UNION {LET skill_name == sequence[n]
                        IN  IF skill_name \in DOMAIN config.skills
                            THEN LET inputs == ConfigGet(config.skills[skill_name],
                                                         "inputs", <<>>)
                                 IN  {inputs[m] : m \in DOMAIN inputs}
                            ELSE {} : n \in DOMAIN sequence}

\* get_optimizable_variable_ids
get_optimizable_variable_ids(variables, config) ==
    get_calculated_variable_ids(variables)
        \cup (get_operative_variable_ids(variables) \ get_fixed_input_variable_ids(config))

\* The promotion leaving current_value as populate_initial_data set it.
mark_calculated_as_operative_no_copy(variables, context) == context

\* _mark_calculated_as_operative
mark_calculated_as_operative(variables, context) ==
    [var_id \in DOMAIN context |->
        IF var_id \in get_calculated_variable_ids(variables)
           /\ context[var_id].dof_value # None
        THEN [context[var_id] EXCEPT !.current_value = context[var_id].dof_value]
        ELSE context[var_id]]

-----------------------------------------------------------------------------
(* OptimizationSkill.                                                      *)

\* optimizable_inputs: the declared inputs that are optimizable, in order.
OptimizableInputs(inputs, optimizable) ==
    SelectSeq(inputs, LAMBDA var_id : var_id \in optimizable)

\* The loop over optimizable_inputs replacing a None current_value by 0.0.
RECURSIVE FixMissingCurrent(_, _, _)
FixMissingCurrent(context, ids, n) ==
    IF n > Len(ids) THEN context
    ELSE FixMissingCurrent(
             IF context[ids[n]].current_value = None
             THEN [context EXCEPT ![ids[n]].current_value = MkF(0),
                                  ![ids[n]].dof_value = MkF(0)]
             ELSE context,
             ids, n + 1)

\* threshold, 1.0 standing in for None
ThresholdOf(var) == IF var.threshold = None THEN MkF(1) ELSE var.threshold

\* Bounds that are not taken around current_value.
OptBoundsAbsolute(var) == <<FNeg(ThresholdOf(var)), ThresholdOf(var)>>

\* (min_bound, max_bound) of a decision variable.
OptBounds(var) ==
    <<FSub(var.current_value, ThresholdOf(var)), FAdd(var.current_value, ThresholdOf(var))>>

\* The points of [lo, hi] the model lets the solver visit: the whole numbers.
Points(bound) == {MkF(n) : n \in bound[1][1]..bound[2][1]}

\* minimize without bounds=bounds: the solver may leave the bounds by a step.
BoxIgnoringBounds(bounds) ==
    LET wide(b) == {MkF(n) : n \in (b[1][1] - 1)..(b[2][1] + 1)}
    IN  {x \in [DOMAIN bounds -> UNION {wide(bounds[n]) : n \in DOMAIN bounds}] :
            \A n \in DOMAIN bounds : x[n] \in wide(bounds[n])}

\* minimize(..., bounds=bounds): the vectors within the bounds.
Box(bounds) ==
    {x \in [DOMAIN bounds -> UNION {Points(bounds[n]) : n \in DOMAIN bounds}] :
        \A n \in DOMAIN bounds : x[n] \in Points(bounds[n])}

\* for var_id, value in zip(optimizable_inputs, x): ....dof_value = value
RECURSIVE WriteDof(_, _, _, _)
WriteDof(context, ids, x, n) ==
    IF n > Len(ids) THEN context
    ELSE WriteDof([context EXCEPT ![ids[n]].dof_value = x[n]], ids, x, n + 1)

\* objective(x): the candidate is written, the cost skill executed and the
\* cost read; r.cost is the value returned.
Objective(skills, skill, ids, x, context) ==
    LET written == WriteDof(context, ids, x, 1)
        r == ExecuteSkill(skills, skill.config.cost_skill_name, written)
    IN  IF ~r.ok THEN [ok |-> FALSE, exc |-> r.exc, context |-> r.context, cost |-> None]
        ELSE IF ~has_variable(r.context, skill.config.cost_feature_name)
        THEN [ok |-> FALSE, exc |-> "KeyError", context |-> r.context, cost |-> None]
        ELSE [ok |-> TRUE, exc |-> "none", context |-> r.context,
              cost |-> r.context[skill.config.cost_feature_name].dof_value]

\* for var_id, value in zip(optimizable_inputs, result.x): both slots written.
RECURSIVE CommitOptimum(_, _, _, _)
CommitOptimum(context, ids, x, n) ==
    IF n > Len(ids) THEN context
    ELSE CommitOptimum([context EXCEPT ![ids[n]].recommended_value = x[n],
                                       ![ids[n]].dof_value = x[n]],
                       ids, x, n + 1)

\* The optimum stored whether or not the solver succeeded.
StoreOptimalValuesBestEffort(context, ids, result) ==
    IF result.success THEN Ok(CommitOptimum(context, ids, result.x, 1))
    ELSE Raise("RuntimeError", CommitOptimum(context, ids, result.x, 1))

\* The optimum stored into dof_value alone.
StoreOptimalValuesDofOnly(context, ids, result) ==
    IF result.success THEN Ok(WriteDof(context, ids, result.x, 1))
    ELSE Raise("RuntimeError", context)

\* if result.success: store the optimal values; else: raise RuntimeError.
StoreOptimalValues(context, ids, result) ==
    IF result.success THEN Ok(CommitOptimum(context, ids, result.x, 1))
    ELSE Raise("RuntimeError", context)

-----------------------------------------------------------------------------
(* OptimizationStrategy.run_cycle, step by step.                           *)
(*                                                                         *)
(* cfg is the strategy configuration (skills, tasks); variables_config its *)
(* variables section; ctx the cycle's DataContext.  cyc holds the position *)
(* of run_cycle: the initial data, pc, the task and skill indexes, the     *)
(* exception raised and the step last completed.  opt holds the running    *)
(* OptimizationSkill.execute: its decision variables, bounds, x0, the      *)
(* number of objective evaluations and how the search ended.  hist keeps   *)
(* the recommended values at the start of OptimizationSkill.execute, the   *)
(* baselines at the start of the search, and the result the solver gave.   *)

Sym(var_id) == <<"sym", var_id, "">>
SymDof(var_id) == <<"sym", var_id, "_dof">>
SymCurrent(var_id) == <<"sym", var_id, "_current">>
BinOp(op, l, r) == <<op, l, r>>

\* cost = (k_dof - k_current) * (k_dof - k_current) + c
CostFormula ==
    BinOp("+", BinOp("*", BinOp("-", SymDof("k"), SymCurrent("k")),
                          BinOp("-", SymDof("k"), SymCurrent("k"))),
               Sym("c"))

CycleConfigNames ==
    {"direct", "nested", "failing", "unbuilt", "unknown_class", "dangling", "no_cost_skill",
     "reversed"}

\* The variables section of the strategy configurations.
CycleVariables(name) ==
    [a |-> [type |-> "Operative", threshold |-> MkF(1)],
     b |-> [type |-> "Operative", threshold |-> MkF(1)],
     c |-> IF name = "nested" THEN [type |-> "Operative"]
           ELSE [type |-> "Operative", threshold |-> None],
     k |-> [type |-> "Calculated", threshold |-> MkF(1)],
     cost |-> [type |-> "Predicted"]]

\* The skills section: calc_k computes k = a + b; cost_fn computes the cost.
\* "nested" wraps calc_k in the CompositionSkill pre_calc; "failing" gives
\* cost_fn an input no variable is configured for; "unbuilt" names a skill
\* in a task that the skills section does not hold; "unknown_class" gives
\* calc_k a class the map does not hold; "dangling" names a skill in the
\* CompositionSkill, "no_cost_skill" a cost skill, that is not there.
CycleSkills(name) ==
    [calc_k |-> [class |-> IF name = "unknown_class" THEN "Polynomial" ELSE "MathFunction",
                 inputs |-> <<"a", "b">>, outputs |-> <<"k">>,
                 config |-> [formula |-> BinOp("+", Sym("a"), Sym("b"))]],
     pre_calc |-> [class |-> "CompositionSkill",
                   config |-> [skill_sequence |-> IF name = "dangling"
                                                 THEN <<"calc_k", "ghost">>
                                                 ELSE <<"calc_k">>]],
     cost_fn |-> [class |-> "MathFunction",
                  inputs |-> IF name = "failing" THEN <<"k", UnknownId>> ELSE <<"k", "c">>,
                  outputs |-> <<"cost">>,
                  config |-> [formula |-> CostFormula]],
     optimizer |-> [class |-> "OptimizationSkill",
                    inputs |-> IF name = "nested" THEN <<"a", "k">> ELSE <<"a", "k", "c">>,
                    config |-> [cost_skill_name |-> IF name = "no_cost_skill" THEN "ghost"
                                                       ELSE "cost_fn",
                                cost_feature_name |-> "cost"]]]

\* The tasks section; "reversed" lists the optimizing task first.
CycleTasks(name) ==
    LET precalc == [name |-> PreCalculationTaskName,
                    skill_sequence |-> IF name = "nested" THEN <<"pre_calc">>
                                       ELSE <<"calc_k">>]
        optimize == [name |-> "Optimize",
                     skill_sequence |-> IF name = "unbuilt" THEN <<"optimizer", "report">>
                                        ELSE <<"optimizer", "cost_fn">>]
    IN  IF name = "reversed" THEN <<optimize, precalc>> ELSE <<precalc, optimize>>

StrategyConfig(name) ==
    [name |-> name, skills |-> CycleSkills(name), tasks |-> CycleTasks(name)]

\* initial_data of run_cycle: a and b always measured, c possibly absent or
\* None.
CycleData ==
    {<< <<"a", PyInt(va)>>, <<"b", PyFlt(MkF(vb))>> >> \o tail :
        va \in 1..MaxData, vb \in 1..MaxData,
        tail \in {<<>>, << <<"c", PyNone>> >>}
                    \cup {<< <<"c", PyInt(vc)>> >> : vc \in 1..MaxData}}

NoCycle == <<>>

CyclePosition(data, pc, task, skill, exc, last) ==
    [data |-> data, pc |-> pc, task |-> task, skill |-> skill, exc |-> exc, last |-> last]

NoSearch ==
    [ids |-> <<>>, bounds |-> <<>>, x0 |-> <<>>, nfev |-> 0, outcome |-> "none"]

\* What a cycle did so far: the DataContexts it created and, in order, the
\* skills it started on which of them, their returns and raises, and the
\* promotions.
Event(ev, task, skill, context) ==
    [ev |-> ev, task |-> task, skill |-> skill, context |-> context]

NoHistory == [rec0 |-> <<>>, cur0 |-> <<>>, x |-> <<>>, created |-> 0, log |-> <<>>]

\* OptimizationStrategy.SKILL_CLASS_MAP
SKILL_CLASS_MAP ==
    {"InferenceModel", "MathFunction", "Constraint", "CompositionSkill", "OptimizationSkill"}

\* CompositionSkill.resolve_skills: every name of the sequence is in the
\* registry.
resolve_skills(config, skill_registry) ==
    \A n \in DOMAIN config.config.skill_sequence :
        config.config.skill_sequence[n] \in skill_registry

\* OptimizationStrategy._build_skills: TRUE when it returns, FALSE when it
\* raises ValueError.
build_skills(skills_config) ==
    /\ \A name \in DOMAIN skills_config : skills_config[name].class \in SKILL_CLASS_MAP
    /\ \A name \in DOMAIN skills_config :
          skills_config[name].class = "CompositionSkill"
             => resolve_skills(skills_config[name], DOMAIN skills_config)

\* for skill_name in task['skill_sequence']: the skill after the one that
\* returned.
NextSkillSkipping(skill) == skill + 2

NextSkill(skill) == skill + 1

\* if task_name == "PreCalculateVariables"
IsPreCalculationTaskAlways(task) == TRUE

IsPreCalculationTask(task) == task.name = PreCalculationTaskName

InitCycle ==
    /\ ctx = NoContext
    /\ call = NoCall
    /\ ConstraintIdle
    /\ CompositionIdle
    /\ SkillsIdle
    /\ ServiceIdle
    /\ \E name \in CycleConfigNames :
          /\ cfg = StrategyConfig(name)
          /\ variables_config = CycleVariables(name)
          /\ \E data \in CycleData :
                cyc = CyclePosition(data, "build", 1, 1, "none", "none")
    /\ opt = NoSearch
    /\ hist = NoHistory

CycleUnchanged ==
    UNCHANGED <<variables_config, call, cons, comp, pool, trace, cfg, skillVars, serviceVars>>

Recommended(context) == [var_id \in DOMAIN context |-> context[var_id].recommended_value]
Current(context) == [var_id \in DOMAIN context |-> context[var_id].current_value]

CurrentTask == cfg.tasks[cyc.task]
CurrentSkillName == CurrentTask.skill_sequence[cyc.skill]
AtSkill ==
    /\ cyc.pc = "task"
    /\ cyc.task <= Len(cfg.tasks)
    /\ cyc.skill <= Len(CurrentTask.skill_sequence)

\* run_cycle raises exc: the cycle ends with no DataContext returned.
CycleRaise(exc, last) == cyc' = [cyc EXCEPT !.pc = "raised", !.exc = exc, !.last = last]

\* The event of the skill at the current position of the cycle.
SkillEvent(ev) == Event(ev, cyc.task, cyc.skill, hist.created)

\* OptimizationStrategy.__init__: self._skills = self._build_skills()
CycBuild ==
    /\ cyc.pc = "build"
    /\ IF build_skills(cfg.skills)
       THEN cyc' = [cyc EXCEPT !.pc = "start", !.last = "build"]
       ELSE cyc' = [cyc EXCEPT !.pc = "unbuildable", !.exc = "ValueError", !.last = "build"]
    /\ UNCHANGED <<ctx, opt, hist>>
    /\ CycleUnchanged

\* data_context = DataContext(self.variables_config);
\* data_context.populate_initial_data(initial_data)
CycPopulate ==
    /\ cyc.pc = "start"
    /\ LET r == populate_initial_data(DataContextNew(variables_config), cyc.data)
       IN  /\ ctx' = r.context
           /\ IF r.ok THEN cyc' = [cyc EXCEPT !.pc = "task", !.last = "populate"]
              ELSE CycleRaise(r.exc, "populate")
    /\ hist' = [hist EXCEPT !.created = @ + 1]
    /\ opt' = opt
    /\ CycleUnchanged

\* skill = self._skills.get(skill_name); if not skill: raise ValueError
CycSkillNotFound ==
    /\ AtSkill
    /\ CurrentSkillName \notin DOMAIN cfg.skills
    /\ CycleRaise("ValueError", "lookup")
    /\ UNCHANGED <<ctx, opt, hist>>
    /\ CycleUnchanged

\* skill.execute(data_context) of a skill other than an OptimizationSkill.
CycExecuteSkill ==
    /\ AtSkill
    /\ CurrentSkillName \in DOMAIN cfg.skills
    /\ cfg.skills[CurrentSkillName].class # "OptimizationSkill"
    /\ LET r == ExecuteSkill(cfg.skills, CurrentSkillName, ctx)
       IN  /\ ctx' = r.context
           /\ IF r.ok THEN cyc' = [cyc EXCEPT !.skill = NextSkill(@), !.last = "skill"]
              ELSE CycleRaise(r.exc, "skill")
           /\ hist' = [hist EXCEPT !.log = @ \o <<SkillEvent("start"),
                                  SkillEvent(IF r.ok THEN "return" ELSE "raise")>>]
    /\ opt' = opt
    /\ CycleUnchanged

\* OptimizationSkill.execute up to the call of minimize: the decision
\* variables, the None repairs, x0 and the bounds.
OptBegin ==
    /\ AtSkill
    /\ CurrentSkillName \in DOMAIN cfg.skills
    /\ cfg.skills[CurrentSkillName].class = "OptimizationSkill"
    /\ LET skill == cfg.skills[CurrentSkillName]
           ids == OptimizableInputs(skill.inputs,
                                    get_optimizable_variable_ids(variables_config, cfg))
           unknown == \E n \in DOMAIN ids : ~has_variable(ctx, ids[n])
           failed == skill.config.cost_skill_name \notin DOMAIN cfg.skills \/ unknown
       IN  /\ hist' = [hist EXCEPT !.rec0 = Recommended(ctx),
                                    !.cur0 = Current(FixMissingCurrent(ctx, ids, 1)),
                                    !.log = @ \o (IF failed
                                                  THEN <<SkillEvent("start"), SkillEvent("raise")>>
                                                  ELSE <<SkillEvent("start")>>)]
           /\ IF failed
              THEN /\ CycleRaise("KeyError", "optimizer")
                   /\ opt' = [NoSearch EXCEPT !.outcome = "error"]
                   /\ ctx' = ctx
              ELSE LET repaired == FixMissingCurrent(ctx, ids, 1)
                   IN  /\ ctx' = repaired
                       /\ opt' = [ids |-> ids,
                                  bounds |-> [n \in DOMAIN ids |-> OptBounds(repaired[ids[n]])],
                                  x0 |-> [n \in DOMAIN ids |-> repaired[ids[n]].current_value],
                                  nfev |-> 0,
                                  outcome |-> "searching"]
                       /\ cyc' = [cyc EXCEPT !.pc = "minimize", !.last = "search"]
    /\ CycleUnchanged

\* One objective evaluation made by minimize: x0 first, then any point within
\* the bounds.  An exception of the cost skill leaves minimize, execute and
\* run_cycle.
OptEvaluate ==
    /\ cyc.pc = "minimize"
    /\ opt.nfev < MaxEvals
    /\ \E x \in Box(opt.bounds) :
          /\ opt.nfev = 0 => x = opt.x0
          /\ LET r == Objective(cfg.skills, cfg.skills[CurrentSkillName], opt.ids, x, ctx)
             IN  /\ ctx' = r.context
                 /\ IF r.ok
                    THEN /\ opt' = [opt EXCEPT !.nfev = @ + 1]
                         /\ cyc' = cyc
                    ELSE /\ opt' = [opt EXCEPT !.nfev = @ + 1, !.outcome = "cost_raised"]
                         /\ CycleRaise(r.exc, "optimizer")
                 /\ hist' = IF r.ok THEN hist
                            ELSE [hist EXCEPT !.log = Append(@, SkillEvent("raise"))]
    /\ CycleUnchanged

\* minimize returns result with result.success, result.x within the bounds;
\* the optimal values are stored and execute returns.
OptSucceed ==
    /\ cyc.pc = "minimize"
    /\ opt.nfev >= 1
    /\ \E x \in Box(opt.bounds) :
          LET r == StoreOptimalValues(ctx, opt.ids, [success |-> TRUE, x |-> x])
          IN  /\ ctx' = r.context
              /\ hist' = [hist EXCEPT !.x = x,
                                       !.log = Append(@, SkillEvent(IF r.ok THEN "return"
                                                                    ELSE "raise"))]
              /\ IF r.ok
                 THEN /\ cyc' = [cyc EXCEPT !.pc = "task", !.skill = NextSkill(@),
                                            !.last = "optimizer"]
                      /\ opt' = [opt EXCEPT !.outcome = "success"]
                 ELSE /\ CycleRaise(r.exc, "optimizer")
                      /\ opt' = [opt EXCEPT !.outcome = "success"]
    /\ CycleUnchanged

\* minimize returns result with result.success False (result.x is the last
\* iterate): execute raises RuntimeError.
OptFail ==
    /\ cyc.pc = "minimize"
    /\ opt.nfev >= 1
    /\ \E x \in Box(opt.bounds) :
          LET r == StoreOptimalValues(ctx, opt.ids, [success |-> FALSE, x |-> x])
          IN  /\ ctx' = r.context
              /\ hist' = [hist EXCEPT !.x = x,
                                       !.log = Append(@, SkillEvent(IF r.ok THEN "return"
                                                                    ELSE "raise"))]
              /\ IF r.ok
                 THEN /\ cyc' = [cyc EXCEPT !.pc = "task", !.skill = NextSkill(@),
                                            !.last = "optimizer"]
                      /\ opt' = [opt EXCEPT !.outcome = "not_success"]
                 ELSE /\ CycleRaise(r.exc, "optimizer")
                      /\ opt' = [opt EXCEPT !.outcome = "not_success"]
    /\ CycleUnchanged

\* The skill_sequence of a task is exhausted: the promotion after the task
\* named PreCalculateVariables, then the next task.
CycTaskEnd ==
    /\ cyc.pc = "task"
    /\ cyc.task <= Len(cfg.tasks)
    /\ cyc.skill > Len(CurrentTask.skill_sequence)
    /\ IF IsPreCalculationTask(CurrentTask)
       THEN /\ ctx' = mark_calculated_as_operative(variables_config, ctx)
            /\ cyc' = [cyc EXCEPT !.task = @ + 1, !.skill = 1, !.last = "promotion"]
            /\ hist' = [hist EXCEPT !.log = Append(@, Event("promotion", cyc.task, 0,
                                                           hist.created))]
       ELSE /\ ctx' = ctx
            /\ cyc' = [cyc EXCEPT !.task = @ + 1, !.skill = 1, !.last = "task"]
            /\ hist' = hist
    /\ opt' = opt
    /\ CycleUnchanged

\* return data_context
CycReturn ==
    /\ cyc.pc = "task"
    /\ cyc.task > Len(cfg.tasks)
    /\ cyc' = [cyc EXCEPT !.pc = "returned", !.last = "return"]
    /\ UNCHANGED <<ctx, opt, hist>>
    /\ CycleUnchanged

NextCycle ==
    \/ CycBuild
    \/ CycPopulate
    \/ CycSkillNotFound
    \/ CycExecuteSkill
    \/ OptBegin
    \/ OptEvaluate
    \/ OptSucceed
    \/ OptFail
    \/ CycTaskEnd
    \/ CycReturn

SpecCycle == InitCycle /\ [][NextCycle]_vars

-----------------------------------------------------------------------------
(* Claims on Variable and DataContext, checked under SpecContext.          *)

Slots(var) == <<var.current_value, var.dof_value, var.recommended_value>>
AllSlotsEqual(var, value) ==
    /\ PyEq(var.current_value, value)
    /\ PyEq(var.dof_value, value)
    /\ PyEq(var.recommended_value, value)

C9_GetVariableNeverCreates ==
    /\ DOMAIN ctx = DOMAIN variables_config
    /\ (call.op = "get_variable" /\ call.var_id \notin DOMAIN variables_config)
        => call.exc = "KeyError"

\* get_variable was called with an unconfigured id, after a populate.
C9_Witness ==
    /\ call.op = "get_variable" /\ call.var_id = UnknownId
    /\ call.exc = "KeyError"
    /\ \E var_id \in DOMAIN ctx : ctx[var_id].current_value # None

-----------------------------------------------------------------------------
(* Claims on Constraint, checked under SpecConstraint.                     *)

\* The score Constraint.execute has just written for the input's dof_value.
Executed == call.op = "execute" /\ call.exc = "none"
ScoreInput == ctx["x"].dof_value
Score == ctx["s"].dof_value
IsReference ==
    /\ cons.var_min = MkF(0) /\ cons.op_min = MkF(10)
    /\ cons.op_max = MkF(20) /\ cons.var_max = MkF(30)

\* C10: score(op_min) == 1.0 and score(op_max) == 1.0; and for op_min=10,
\* op_max=20, var_min=0, var_max=30: score(5) == 0.5, score(25) == 0.5,
\* score(-10) == 0.0 and score(40) == 0.0, score(v) being the value
\* Constraint.execute writes to its output for the input dof_value v.
C10_ScoreReferencePoints ==
    Executed =>
        /\ (FLe(cons.op_min, cons.op_max) /\ ScoreInput \in {cons.op_min, cons.op_max})
            => Score = MkF(1)
        /\ IsReference =>
            /\ ScoreInput = MkF(5) => Score = Ratio(1, 2)
            /\ ScoreInput = MkF(25) => Score = Ratio(1, 2)
            /\ ScoreInput = MkF(-10) => Score = MkF(0)
            /\ ScoreInput = MkF(40) => Score = MkF(0)

\* The limits are ordered: var_min <= op_min <= op_max <= var_max.
LimitsOrdered ==
    /\ FLe(cons.var_min, cons.op_min)
    /\ FLe(cons.op_min, cons.op_max)
    /\ FLe(cons.op_max, cons.var_max)

\* C11: for every input dof_value, below var_min and above var_max included,
\* and every configuration with var_min <= op_min <= op_max <= var_max, the
\* score Constraint.execute writes lies in [0, 1].
C11_ScoreRange ==
    (Executed /\ LimitsOrdered) => (FLe(MkF(0), Score) /\ FLe(Score, MkF(1)))

LimitsFinite ==
    /\ IsFinite(cons.var_min) /\ IsFinite(cons.var_max)
    /\ IsFinite(cons.op_min) /\ IsFinite(cons.op_max)

\* C12: when op_min == var_min and value < op_min the score is 0.0, and so
\* when op_max == var_max and value > op_max; and for finite limits no ramp
\* division is evaluated with a zero denominator (execute never ends in a
\* ZeroDivisionError).
C12_DegenerateBounds ==
    call.op = "execute" =>
        /\ (Executed /\ ScoreInput # None) =>
              /\ (FEq(cons.op_min, cons.var_min) /\ FLt(ScoreInput, cons.op_min))
                    => Score = MkF(0)
              /\ (FEq(cons.op_max, cons.var_max) /\ FLt(cons.op_max, ScoreInput))
                    => Score = MkF(0)
        /\ LimitsFinite => call.exc # "ZeroDivisionError"

\* op_min == var_min == 10 and the score of 5 has been written.
C12_Witness ==
    /\ Executed
    /\ cons.op_min = MkF(10) /\ cons.var_min = MkF(10)
    /\ ScoreInput = MkF(5)

-----------------------------------------------------------------------------
(* Claims on MathFunction, checked under SpecFormula.                      *)

\* The formulas that reference an undefined symbol, are malformed, raise a
\* runtime error in evaluation or evaluate to None.
FailingFormulas ==
    {"undefined_symbol", "undefined_name", "zero_division", "none_operand",
     "none_result", "malformed"}

\* C13: for every formula that references an undefined symbol, is malformed,
\* raises a runtime error during evaluation or evaluates to None, execute
\* does not raise and writes 0.0 to its output variable's dof_value.
C13_FailSoft ==
    (mf # <<>> /\ mf.name \in FailingFormulas) =>
        \A n \in DOMAIN mf.runs :
            /\ mf.runs[n].ok
            /\ mf.runs[n].out = MkF(0)
            /\ (n = Len(mf.runs) /\ ~mf.written) => ctx["k"].dof_value = MkF(0)

\* A formula dividing by zero was executed after the output held 2.0.
C13_Witness ==
    /\ mf # <<>>
    /\ mf.name = "zero_division"
    /\ Len(mf.runs) = 1
    /\ mf.runs[1].clean = FALSE
    /\ ctx["a"].dof_value = MkF(2)

\* Two executions in a row with no other write in between.
InARow(n) == n > 1 /\ n \in DOMAIN mf.runs /\ mf.runs[n].clean

\* C14: executing the same MathFunction twice in a row, with no other write
\* to the context in between, yields the same output value both times.
C14_Idempotence ==
    mf # <<>> => \A n \in DOMAIN mf.runs : InARow(n) => mf.runs[n].out = mf.runs[n - 1].out

\* C14 as amended: the same, for a skill whose output variable is not one of
\* its inputs (its first execution leaves what the formula reads unmodified).
C14_IdempotenceUnmodifiedInputs ==
    mf # <<>> =>
        \A n \in DOMAIN mf.runs :
            (InARow(n) /\ \A m \in DOMAIN mf.skill.inputs :
                              mf.skill.outputs # <<mf.skill.inputs[m]>>)
                => mf.runs[n].out = mf.runs[n - 1].out

\* A skill not reading its output was executed twice in a row, its
\* interpreter holding the symbols of the first execution, output not 0.0.
C14_Witness ==
    /\ mf # <<>>
    /\ mf.name = "scaled"
    /\ InARow(2)
    /\ mf.runs[2].out # MkF(0)
    /\ mf.runs[1].clean = FALSE

-----------------------------------------------------------------------------
(* Claims on InferenceModel, checked under SpecInference.                  *)

Built == inf # <<>> /\ inf.skill # NotBuilt

\* C15: execute never raises to its caller; whenever any of its inputs has a
\* null dof_value or current_value, or an exception occurs during inference,
\* the delta contribution is 0.0: the output written is 0.0.
C15_FailSoft ==
    inf # <<>> =>
        \A n \in DOMAIN inf.runs :
            /\ inf.runs[n].ok
            /\ (inf.runs[n].null_input \/ inf.runs[n].raised) => inf.runs[n].out = MkF(0)

\* The last load attempted for the artifact failed.
LoadFailed(artifact) ==
    /\ inf.skill.loads[artifact] >= 1
    /\ inf.store[artifact][inf.skill.loads[artifact]] # LoadOk

\* C16: if loading of the model or of the scaler failed during construction,
\* then model, scaler and metadata are all unset, no later operation
\* attempts a reload, and every subsequent execute writes 0.0 to the output
\* variable's dof_value whatever the inputs are.
C16_PermanentDegradation ==
    (Built /\ (LoadFailed("model") \/ LoadFailed("scaler"))) =>
        /\ ~inf.skill.model /\ ~inf.skill.scaler /\ ~inf.skill.metadata
        /\ \A n \in DOMAIN inf.runs :
              /\ inf.runs[n].loads = inf.skill.loads
              /\ inf.runs[n].ok
              /\ inf.runs[n].out = MkF(0)
        /\ inf.runs # <<>> => ctx["y"].dof_value = MkF(0)

\* The model loaded, the scaler did not; the skill was executed twice on
\* different inputs with an output that held 1.0 before.
C16_Witness ==
    /\ Built
    /\ inf.store.model[1] = LoadOk
    /\ LoadFailed("scaler")
    /\ Len(inf.runs) = 2
    /\ ctx["d"].dof_value = MkF(2)
    /\ ctx["y"].current_value = MkF(1)

\* The store found the artifact missing, stale or corrupted on the first load.
FoundBad(artifact) ==
    /\ inf.skill.loads[artifact] >= 1
    /\ inf.store[artifact][1].problem \in {"missing", "corrupted"}

\* C17: during construction, whenever the model artifact (the downloaded temp
\* file) or the scaler handed out by the store is found missing, stale or
\* corrupted, the skill invalidates that cache entry and retries the load
\* exactly once, never zero times and never more than once; if the retry
\* also fails the skill is left degraded.
C17_InvalidateAndRetryOnce ==
    Built =>
        \A artifact \in {"model", "scaler"} :
            /\ inf.skill.loads[artifact] <= 2
            /\ FoundBad(artifact) =>
                  /\ inf.skill.loads[artifact] = 2
                  /\ inf.store.cache => inf.skill.invalidated[artifact] = 1
                  /\ inf.store[artifact][2] # LoadOk =>
                        (~inf.skill.model /\ ~inf.skill.scaler /\ ~inf.skill.metadata)

-----------------------------------------------------------------------------
(* Claims on CompositionSkill.execute, checked under SpecComposition.      *)

\* Positions p < q of one run of consecutive InferenceModels.
SameRun(p, q) == \A m \in p..q : IsInferenceModel(comp.seq[m])

\* C5: a skill begins only after every earlier skill of the sequence that is
\* not a member of its own run of consecutive InferenceModels has completed;
\* so a non-inference skill begins after all earlier skills completed, and a
\* run begins after everything before it and completes before anything after
\* it begins.  For [A, B(inference), C(inference), D]: A completes before B
\* and C begin, and D never begins before both B and C have completed.
C5_CompositionOrdering ==
    /\ \A p, q \in DOMAIN pool :
        (p < q /\ Begun(q) /\ ~SameRun(p, q)) => pool[p] = "done"
    /\ comp.seq = <<"MathFunction", "InferenceModel", "InferenceModel", "MathFunction">>
        => /\ (Begun(2) \/ Begun(3)) => pool[1] = "done"
           /\ Begun(4) => (pool[2] = "done" /\ pool[3] = "done")

\* In [A, B, C, D], D has begun.
C5_Witness ==
    /\ comp.seq = <<"MathFunction", "InferenceModel", "InferenceModel", "MathFunction">>
    /\ Begun(4)

\* In [A, B, C, D], B and C execute at the same time.
C5_WitnessConcurrent ==
    /\ comp.seq = <<"MathFunction", "InferenceModel", "InferenceModel", "MathFunction">>
    /\ pool[2] = "running" /\ pool[3] = "running"

\* execute has raised the failure of a batch.
BatchFailurePropagated == comp.pc = "raised" /\ comp.exc

\* C6: if any InferenceModel of a batch raises, execute propagates a failure
\* only after every member of the batch has finished, no skill after the batch
\* is executed, and no failure raised by a member is lost: each was raised by
\* future.result() (and logged).
C6_BatchFailure ==
    BatchFailurePropagated =>
        /\ \A p \in Batch : Finished(p)
        /\ \A p \in DOMAIN pool : p > comp.last => pool[p] = "idle"
        /\ \A p \in Batch : pool[p] = "failed" => p \in trace

\* The part of C6 that holds: the failure leaves execute after the whole batch
\* has finished, and nothing after the batch is executed.
C6_BatchFailureAfterJoin ==
    BatchFailurePropagated =>
        /\ \A p \in Batch : Finished(p)
        /\ \A p \in DOMAIN pool : p > comp.last => pool[p] = "idle"

-----------------------------------------------------------------------------
(* Claims on run_cycle and OptimizationSkill                               *)

RECURSIVE ReachableSkills(_, _)
\* The skills reachable through a skill sequence, those nested in a
\* CompositionSkill included.
ReachableSkills(skills, names) ==
    UNION {LET name == names[n]
           IN  IF name \notin DOMAIN skills THEN {}
               ELSE IF skills[name].class = "CompositionSkill"
               THEN {name} \cup ReachableSkills(skills, skills[name].config.skill_sequence)
               ELSE {name} : n \in DOMAIN names}

PreCalculationSequence ==
    LET named == {t \in DOMAIN cfg.tasks : cfg.tasks[t].name = PreCalculationTaskName}
    IN  UNION {{<<cfg.tasks[t].skill_sequence>>} : t \in named}

SkillInputs(name) ==
    LET inputs == ConfigGet(cfg.skills[name], "inputs", <<>>)
    IN  {inputs[n] : n \in DOMAIN inputs}

SkillOutputs(name) ==
    LET outputs == ConfigGet(cfg.skills[name], "outputs", <<>>)
    IN  {outputs[n] : n \in DOMAIN outputs}

\* The promotion of k holds: baseline frozen, k optimizable, inputs fixed.
Promoted(k, inputs) ==
    /\ ctx[k].current_value = ctx[k].dof_value
    /\ k \in get_optimizable_variable_ids(variables_config, cfg)
    /\ inputs \cap get_optimizable_variable_ids(variables_config, cfg) = {}

PromotionHolds(computing) ==
    cyc.last = "promotion" =>
        \A k \in get_calculated_variable_ids(variables_config) :
            LET skills == {name \in computing : k \in SkillOutputs(name)}
                inputs == UNION {SkillInputs(name) : name \in skills}
            IN  (skills # {} /\ inputs \subseteq get_operative_variable_ids(variables_config))
                    => Promoted(k, inputs)

\* C1: once the pre-calculation Task has finished, a Calculated variable k
\* whose computing skills in that Task (the skills the Task runs, directly or
\* through a CompositionSkill) take only Operative variables as inputs has
\* current_value == dof_value, is optimizable, and its inputs are not.
C1_Promotion ==
    PromotionHolds(UNION {ReachableSkills(cfg.skills, seq[1]) : seq \in PreCalculationSequence})

\* The same for the computing skills the Task's skill_sequence names itself.
C1_PromotionDirect ==
    PromotionHolds(UNION {{seq[1][n] : n \in DOMAIN seq[1]} \cap DOMAIN cfg.skills :
                              seq \in PreCalculationSequence})

\* The pre-calculation Task of the configuration naming calc_k has finished.
C1_WitnessDirect ==
    /\ cyc # NoCycle
    /\ cyc.last = "promotion"
    /\ cfg.name = "direct"
    /\ ctx["k"].dof_value = MkF(3)

SearchSucceeded == cyc # NoCycle /\ cyc.last = "optimizer" /\ opt.outcome = "success"

C3_FailureNoCommit ==
    cyc # NoCycle =>
        /\ opt.outcome \in {"cost_raised", "not_success"} =>
              /\ cyc.pc = "raised"
              /\ Recommended(ctx) = hist.rec0
        /\ cfg.name = "failing" => opt.outcome # "success" /\ cyc.pc # "returned"

\* The solver reported non-success after trying a candidate off the baseline.
C3_Witness ==
    /\ cyc # NoCycle
    /\ opt.outcome = "not_success"
    /\ \E n \in DOMAIN opt.ids : hist.x[n] # hist.rec0[opt.ids[n]]
    /\ \E n \in DOMAIN opt.ids : ctx[opt.ids[n]].dof_value # hist.cur0[opt.ids[n]]

\* The cost skill raised on the first evaluation.
C3_WitnessCostRaises ==
    /\ cyc # NoCycle
    /\ opt.outcome = "cost_raised"
    /\ cyc.exc = "KeyError"

\* C4: when the solver reports success the optimum is in dof_value and in
\* recommended_value of every decision variable, and the recommended_value
\* of every other variable is the one it had before.
C4_SuccessCommit ==
    SearchSucceeded =>
        /\ \A n \in DOMAIN opt.ids :
              /\ ctx[opt.ids[n]].dof_value = hist.x[n]
              /\ ctx[opt.ids[n]].recommended_value = hist.x[n]
              /\ ctx[opt.ids[n]].dof_value = ctx[opt.ids[n]].recommended_value
        /\ \A var_id \in DOMAIN ctx :
              (\A n \in DOMAIN opt.ids : opt.ids[n] # var_id)
                  => ctx[var_id].recommended_value = hist.rec0[var_id]

\* A success whose optimum differs from what the decision variables
\* recommended before.
C4_Witness ==
    /\ SearchSucceeded
    /\ Len(opt.ids) = 2
    /\ \A n \in DOMAIN opt.ids : hist.x[n] # hist.rec0[opt.ids[n]]

-----------------------------------------------------------------------------
(* Claims on the construction and the task loop, checked under SpecCycle.  *)

\* The configuration has an unknown skill class or a skill name reference
\* that the skills section does not resolve.
ConfigurationError ==
    \/ \E name \in DOMAIN cfg.skills : cfg.skills[name].class \notin SKILL_CLASS_MAP
    \/ \E t \in DOMAIN cfg.tasks : \E n \in DOMAIN cfg.tasks[t].skill_sequence :
          cfg.tasks[t].skill_sequence[n] \notin DOMAIN cfg.skills
    \/ \E name \in DOMAIN cfg.skills :
          /\ cfg.skills[name].class = "CompositionSkill"
          /\ \E n \in DOMAIN cfg.skills[name].config.skill_sequence :
                cfg.skills[name].config.skill_sequence[n] \notin DOMAIN cfg.skills
    \/ \E name \in DOMAIN cfg.skills :
          /\ cfg.skills[name].class = "OptimizationSkill"
          /\ cfg.skills[name].config.cost_skill_name \notin DOMAIN cfg.skills

\* C18: for every configuration with an unknown skill class or an unresolved
\* skill name reference (in a Task's skill_sequence, in a CompositionSkill's
\* skill_sequence, or as an OptimizationSkill's cost skill), Strategy
\* construction raises, so no run_cycle ever executes a Skill under it.
C18_ConfigurationErrorsAtBuild ==
    (cyc # <<>> /\ ConfigurationError) =>
        /\ cyc.pc \in {"build", "unbuildable"}
        /\ hist.log = <<>>

IsPrefix(a, b) == Len(a) <= Len(b) /\ \A n \in DOMAIN a : a[n] = b[n]

\* The promotions of the cycle, and the index of the pre-calculation task.
Promotions == SelectSeq(hist.log, LAMBDA e : e.ev = "promotion")
PreCalculationIndex ==
    CHOOSE t \in DOMAIN cfg.tasks : cfg.tasks[t].name = PreCalculationTaskName

RECURSIVE TaskPositions(_, _)
TaskPositions(tasks, t) ==
    IF t > Len(tasks) THEN <<>>
    ELSE [n \in 1..Len(tasks[t].skill_sequence) |-> <<t, n>>] \o TaskPositions(tasks, t + 1)

ConfiguredOrder == TaskPositions(cfg.tasks, 1)
SkillEvents == SelectSeq(hist.log, LAMBDA e : e.ev # "promotion")
Starts == SelectSeq(hist.log, LAMBDA e : e.ev = "start")
StartedPositions == [n \in DOMAIN Starts |-> <<Starts[n].task, Starts[n].skill>>]

\* C20: in run_cycle, Tasks execute strictly in configured order and the
\* skills of a Task strictly in their sequence order (skill i+1 starts only
\* after skill i returned, a Task starts only after the previous Task
\* finished), and every skill of every Task of one cycle executes against
\* the same single DataContext created at the start of that cycle.
C20_TaskExecutionOrder ==
    cyc # <<>> =>
        /\ IsPrefix(StartedPositions, ConfiguredOrder)
        /\ cyc.pc = "returned" => StartedPositions = ConfiguredOrder
        /\ \A n \in DOMAIN SkillEvents :
              IF SkillEvents[n].ev = "start"
              THEN n > 1 => SkillEvents[n - 1].ev = "return"
              ELSE /\ n > 1
                   /\ SkillEvents[n - 1].ev = "start"
                   /\ SkillEvents[n - 1].task = SkillEvents[n].task
                   /\ SkillEvents[n - 1].skill = SkillEvents[n].skill
        /\ hist.created <= 1
        /\ \A n \in DOMAIN hist.log : hist.log[n].context = 1 /\ hist.created = 1

\* A cycle of two tasks and three skills that returned.
C20_Witness ==
    /\ cyc # <<>>
    /\ cyc.pc = "returned"
    /\ Len(ConfiguredOrder) = 3
    /\ Len(Starts) = 3
    /\ Starts[3].task = 2

-----------------------------------------------------------------------------
(* Claims on the fixed inputs and the decision variables                   *)

\* The inputs of the skills reachable through the skill sequence of the
\* first Task named PreCalculateVariables.
ReachableFixedInputs ==
    LET named == {t \in DOMAIN cfg.tasks : cfg.tasks[t].name = PreCalculationTaskName}
    IN  IF named = {} THEN {}
        ELSE LET first == CHOOSE t \in named : \A u \in named : t <= u
             IN  UNION {SkillInputs(name) :
                           name \in ReachableSkills(cfg.skills, cfg.tasks[first].skill_sequence)}

\* C28: get_fixed_input_variable_ids reports a variable if and only if it is
\* in the inputs list of a skill reachable through the pre-calculation
\* Task's skill sequence, skills nested in a CompositionSkill the Task names
\* included; get_optimizable_variable_ids is the Calculated variables and
\* the Operative variables that are not fixed inputs.
C28_FixedInputDetection ==
    cyc # NoCycle =>
        /\ get_fixed_input_variable_ids(cfg) = ReachableFixedInputs
        /\ get_optimizable_variable_ids(variables_config, cfg)
              = get_calculated_variable_ids(variables_config)
                   \cup (get_operative_variable_ids(variables_config) \ ReachableFixedInputs)

\* An objective evaluation has written the candidate into the decision
\* variables.
SearchWrote == cyc # NoCycle /\ opt.outcome # "none" /\ opt.nfev >= 1

\* C29: the decision variables of OptimizationSkill.execute are its declared
\* inputs that are in the optimizable set, in input order; the search writes
\* no fixed input and no Informative, Delta, Predicted or Constraint
\* variable, and no variable that is not a declared input.
C29_DecisionVariables ==
    SearchWrote =>
        LET inputs == cfg.skills["optimizer"].inputs
            written == {opt.ids[n] : n \in DOMAIN opt.ids}
        IN  /\ opt.ids = OptimizableInputs(inputs,
                             get_optimizable_variable_ids(variables_config, cfg))
            /\ written \subseteq {inputs[n] : n \in DOMAIN inputs}
            /\ written \cap ReachableFixedInputs = {}
            /\ \A var_id \in written :
                  variables_config[var_id].type \in {"Operative", "Calculated"}

-----------------------------------------------------------------------------
(* SpecTimestamp: the strategy cache and the last-run timestamp under any  *)
(* sequence of calls.                                                      *)
(*                                                                         *)
(* cache.impl is the cache class; cache.file the content of the timestamp  *)
(* file; cache.store the cached entries: last_run (the timestamp key),     *)
(* current (the version key) and artifacts (some config, model or scaler   *)
(* is cached).  cache.calls are the get_last_run_timestamp and             *)
(* update_last_run_timestamp calls made with what they returned, and       *)
(* cache.last the call made last with the store it found.                  *)

\* datetime values and configuration versions.
Timestamps == {<<t>> : t \in 1..MaxTime}
Versions == {<<v>> : v \in 1..MaxVersion}

\* datetime.isoformat and datetime.fromisoformat
isoformat(timestamp) == [iso |-> timestamp[1]]
fromisoformat(text) == <<text.iso>>

\* StrategyCache (Redis), InMemoryCache (a dict) and CacheManager (its
\* MemoryCaches; it holds no timestamp).
CacheImpls == {"StrategyCache", "InMemoryCache", "CacheManager"}

\* Whether an operation on the cache can fail: a Redis command can.
Outcomes(impl) == IF impl = "StrategyCache" THEN BOOLEAN ELSE {TRUE}

EmptyStore == [last_run |-> None, current |-> None, artifacts |-> FALSE]

\* RedisCache.set of a datetime (False on an exception, nothing stored) and
\* the dict assignment of InMemoryCache.
CacheSetTimestamp(impl, store, timestamp, ok) ==
    IF impl = "StrategyCache"
    THEN IF ok THEN [store EXCEPT !.last_run = [type |-> "datetime",
                                                value |-> isoformat(timestamp)]]
         ELSE store
    ELSE [store EXCEPT !.last_run = timestamp]

\* RedisCache.get of the timestamp key (None on an exception) and the dict
\* lookup of InMemoryCache.
CacheGetTimestamp(impl, store, ok) ==
    IF impl = "StrategyCache"
    THEN IF ok /\ store.last_run # None THEN fromisoformat(store.last_run.value) ELSE None
    ELSE store.last_run

\* _load_timestamp_from_file
load_timestamp_from_file(file) ==
    IF file = None THEN None ELSE fromisoformat(file.last_run_timestamp)

\* get_last_run_timestamp: the cached timestamp, else the one of the file,
\* which is then cached.
get_last_run_timestamp(c, readOk, writeOk) ==
    LET cached == CacheGetTimestamp(c.impl, c.store, readOk)
        timestamp == load_timestamp_from_file(c.file)
    IN  IF cached # None THEN [ret |-> cached, store |-> c.store]
        ELSE IF timestamp # None
        THEN [ret |-> timestamp,
              store |-> CacheSetTimestamp(c.impl, c.store, timestamp, writeOk)]
        ELSE [ret |-> None, store |-> c.store]

\* update_last_run_timestamp leaving the cache as it is.
update_last_run_timestamp_file_only(c, timestamp, writeOk) ==
    [file |-> [last_run_timestamp |-> isoformat(timestamp)], store |-> c.store]

\* update_last_run_timestamp: the file is written, then the cache is set;
\* what set_cached_last_run_timestamp returns is not looked at.
update_last_run_timestamp(c, timestamp, writeOk) ==
    [file |-> [last_run_timestamp |-> isoformat(timestamp)],
     store |-> CacheSetTimestamp(c.impl, c.store, timestamp, writeOk)]

\* clear_all_caches: clear_pattern per prefix, 0 keys deleted on an exception.
clear_all_caches(store, artifactsOk, timestampOk) ==
    [store EXCEPT !.artifacts = IF artifactsOk THEN FALSE ELSE @,
                  !.last_run = IF timestampOk THEN None ELSE @]

\* check_version_and_invalidate_if_needed never clearing.
check_version_never_clearing(impl, store, current_version, readOk, artifactsOk, timestampOk, writeOk) ==
    [ret |-> FALSE, store |-> store]

\* check_version_and_invalidate_if_needed of StrategyCache and InMemoryCache:
\* the version key is read (None on an exception); when it differs the
\* caches are cleared and the version key is set.
check_version_and_invalidate_if_needed(impl, store, current_version, readOk, artifactsOk, timestampOk, writeOk) ==
    LET cached_version == IF readOk THEN store.current ELSE None
        cleared == clear_all_caches(store, artifactsOk, timestampOk)
    IN  IF cached_version # current_version
        THEN [ret |-> TRUE,
              store |-> IF writeOk THEN [cleared EXCEPT !.current = current_version]
                        ELSE cleared]
        ELSE [ret |-> FALSE, store |-> store]

\* CacheManager.check_and_invalidate_on_version_change
check_and_invalidate_on_version_change(store, new_version) ==
    IF store.current = None
    THEN [ret |-> FALSE, store |-> [store EXCEPT !.current = new_version]]
    ELSE IF store.current # new_version
    THEN [ret |-> TRUE, store |-> [EmptyStore EXCEPT !.current = new_version]]
    ELSE [ret |-> FALSE, store |-> store]

TimestampCall(op, arg, ret) == [op |-> op, arg |-> arg, ret |-> ret]

CacheCall(op, arg, ret, before) == [op |-> op, arg |-> arg, ret |-> ret, before |-> before]

TimestampUnchanged ==
    UNCHANGED <<ctxVars, consVars, compVars, cycVars, skillVars, rep, svc, app>>

\* A process that has cached nothing; the timestamp file may be there from
\* an earlier run.
InitTimestamp ==
    /\ \E impl \in CacheImpls, file \in {None} \cup Timestamps :
          cache = [impl |-> impl,
                   file |-> IF file = None THEN None
                            ELSE [last_run_timestamp |-> isoformat(file)],
                   store |-> EmptyStore,
                   calls |-> <<>>,
                   last |-> CacheCall("none", None, None, EmptyStore)]
    /\ rep = <<>> /\ svc = <<>> /\ app = <<>>
    /\ ContextIdle /\ ConstraintIdle /\ CompositionIdle /\ CycleIdle /\ SkillsIdle

\* StrategyManager.get_last_run_timestamp()
TsGet ==
    /\ cache.impl # "CacheManager"
    /\ Len(cache.calls) < MaxCalls
    /\ \E readOk, writeOk \in Outcomes(cache.impl) :
          LET r == get_last_run_timestamp(cache, readOk, writeOk)
          IN  cache' = [cache EXCEPT !.store = r.store,
                                     !.calls = Append(@, TimestampCall("get", None, r.ret)),
                                     !.last = CacheCall("get", None, r.ret, cache.store)]
    /\ TimestampUnchanged

\* StrategyManager.update_last_run_timestamp(timestamp)
TsUpdate ==
    /\ cache.impl # "CacheManager"
    /\ Len(cache.calls) < MaxCalls
    /\ \E timestamp \in Timestamps, writeOk \in Outcomes(cache.impl) :
          LET r == update_last_run_timestamp(cache, timestamp, writeOk)
          IN  cache' = [cache EXCEPT !.file = r.file,
                                     !.store = r.store,
                                     !.calls = Append(@, TimestampCall("update", timestamp, None)),
                                     !.last = CacheCall("update", timestamp, None, cache.store)]
    /\ TimestampUnchanged

\* set_cached_config, set_cached_model, set_cached_scaler: an artifact is cached.
CacheArtifact ==
    /\ ~cache.store.artifacts
    /\ \E ok \in Outcomes(cache.impl) :
          cache' = [cache EXCEPT !.store.artifacts = ok,
                                 !.last = CacheCall("cache", None, None, cache.store)]
    /\ TimestampUnchanged

\* The version check of the cache class.
VersionCheck ==
    \E version \in Versions, readOk, artifactsOk, timestampOk, writeOk \in Outcomes(cache.impl) :
        LET r == IF cache.impl = "CacheManager"
                 THEN check_and_invalidate_on_version_change(cache.store, version)
                 ELSE check_version_and_invalidate_if_needed(
                          cache.impl, cache.store, version, readOk, artifactsOk,
                          timestampOk, writeOk)
        IN  /\ cache' = [cache EXCEPT !.store = r.store,
                                      !.last = CacheCall("check", version, <<r.ret>>, cache.store)]
            /\ TimestampUnchanged

\* A Redis key reaches its TTL.
RedisExpire ==
    /\ cache.impl = "StrategyCache"
    /\ \/ /\ cache.store.last_run # None
          /\ cache' = [cache EXCEPT !.store.last_run = None,
                                    !.last = CacheCall("expire", None, None, cache.store)]
       \/ /\ cache.store.current # None
          /\ cache' = [cache EXCEPT !.store.current = None,
                                    !.last = CacheCall("expire", None, None, cache.store)]
    /\ TimestampUnchanged

NextTimestamp ==
    \/ TsGet
    \/ TsUpdate
    \/ CacheArtifact
    \/ VersionCheck
    \/ RedisExpire

SpecTimestamp == InitTimestamp /\ [][NextTimestamp]_vars

-----------------------------------------------------------------------------
(* Claims on the timestamp cache and the version check                     *)

\* The timestamp of the last update_last_run_timestamp before call i, None
\* when there is none.
RECURSIVE LastUpdate(_, _)
LastUpdate(calls, i) ==
    IF i = 0 THEN None
    ELSE IF calls[i].op = "update" THEN calls[i].arg
    ELSE LastUpdate(calls, i - 1)

\* C25: two consecutive get_last_run_timestamp calls return the same value;
\* after update_last_run_timestamp(t) the cached timestamp is t and every
\* get_last_run_timestamp returns t until the next update, whatever calls
\* were made and whether or not a cache write failed.
C25_TimestampCacheConsistency ==
    cache # <<>> =>
        /\ \A i \in DOMAIN cache.calls :
              cache.calls[i].op = "get" =>
                 /\ (i > 1 /\ cache.calls[i - 1].op = "get")
                       => cache.calls[i].ret = cache.calls[i - 1].ret
                 /\ LastUpdate(cache.calls, i) # None
                       => cache.calls[i].ret = LastUpdate(cache.calls, i)
        /\ cache.last.op = "update"
              => CacheGetTimestamp(cache.impl, cache.store, TRUE) = cache.last.arg

\* The same of the InMemoryCache alone.
C25_InMemoryConsistency ==
    (cache # <<>> /\ cache.impl = "InMemoryCache") => C25_TimestampCacheConsistency

\* C26: a version check called with a version other than the recorded one
\* clears every cached entry, the cached last-run timestamp included, and
\* records the new version; a check with the recorded version clears
\* nothing.
C26_InvalidationOnVersionChange ==
    (cache # <<>> /\ cache.last.op = "check") =>
        IF cache.last.before.current # cache.last.arg
        THEN /\ cache.store.artifacts = FALSE
             /\ cache.store.last_run = None
             /\ cache.store.current = cache.last.arg
        ELSE cache.store = cache.last.before

\* The same of the InMemoryCache alone.
C26_InMemoryInvalidation ==
    (cache # <<>> /\ cache.impl = "InMemoryCache") => C26_InvalidationOnVersionChange

-----------------------------------------------------------------------------
(* SpecService: OptimizationService.run_single_cycle and the optimize      *)
(* endpoint of APIService, step by step.                                   *)
(*                                                                         *)
(* svc.kind tells which of the two runs; svc.pc is the step to take next,  *)
(* svc.data the live data (the row of the database, or input_data of the   *)
(* request), svc.stamp the timestamp of the row, svc.ret what              *)
(* run_single_cycle returned, svc.status the HTTP status answered,         *)
(* svc.report the condition reported (the exception type, or               *)
(* "missing_variables") with svc.listed the ids it lists, svc.skills the   *)
(* skills run_cycle started, svc.strategies the Strategies built,          *)
(* svc.done the steps completed, svc.before the timestamp file and the     *)
(* cache when the cycle started.  cache is the StrategyManager's.          *)

\* The variables section: a Operative, i Informative, k Calculated, and the
\* Predicted cost_function_total when the configuration has it.
ServiceVariables(hasCost) ==
    [var_id \in {"a", "i", "k"} \cup (IF hasCost THEN {"cost_function_total"} ELSE {}) |->
        CASE var_id = "a" -> [type |-> "Operative", threshold |-> MkF(1)]
          [] var_id = "i" -> [type |-> "Informative"]
          [] var_id = "k" -> [type |-> "Calculated"]
          [] OTHER -> [type |-> "Predicted"]]

\* get_informative_variable_ids
get_informative_variable_ids(variables) ==
    {var_id \in DOMAIN variables : variables[var_id].type = "Informative"}

\* required_vars = operative_vars + informative_vars
required_vars(variables) ==
    get_operative_variable_ids(variables) \cup get_informative_variable_ids(variables)

\* The live data: each of a and i absent, null or measured.
ServiceData ==
    {da \o di : da \in {<<>>, << <<"a", PyNone>> >>, << <<"a", PyInt(1)>> >>},
                di \in {<<>>, << <<"i", PyNone>> >>, << <<"i", PyFlt(MkF(2))>> >>}}

\* latest_data.get(var) is None
IsNoneInData(data, var_id) ==
    var_id \notin DataKeys(data) \/ DataValue(data, var_id) = PyNone

\* The missing variables check of run_single_cycle.
ServiceMissing(variables, data) ==
    {var_id \in required_vars(variables) : IsNoneInData(data, var_id)}

\* The missing variables check of _run_single_optimization_cycle:
\* var not in input_data.
ApiMissing(variables, data) ==
    {var_id \in required_vars(variables) : var_id \notin DataKeys(data)}

\* The order of the steps of run_single_cycle with the timestamp written
\* before the optimizer runs.
CycleStepsUpdateFirst ==
    <<"load", "timestamp", "fetch", "check", "update", "run_cycle", "post_process">>

\* The steps of run_single_cycle in the order of its statements.
CycleSteps ==
    <<"load", "timestamp", "fetch", "check", "run_cycle", "post_process", "update">>

\* The step after a step that completed; "return" after the last.
StepAfter(step) ==
    LET n == CHOOSE m \in DOMAIN CycleSteps : CycleSteps[m] = step
    IN  IF n = Len(CycleSteps) THEN "return" ELSE CycleSteps[n + 1]

NoReturn == <<>>

ServiceState(kind, hasCost) ==
    [kind |-> kind, pc |-> "idle", cycle_count |-> 0, hasCost |-> hasCost,
     request |-> <<>>, data |-> <<>>, stamp |-> None, ret |-> NoReturn, status |-> 0,
     report |-> "none", listed |-> {}, skills |-> 0, strategies |-> 0, cycles |-> 0,
     done |-> {}, before |-> <<>>]

ServiceUnchanged ==
    UNCHANGED <<ctxVars, consVars, compVars, cycVars, skillVars, rep, app>>

InitService ==
    /\ \E hasCost \in BOOLEAN, kind \in {"service", "api"} :
          svc = ServiceState(kind, hasCost)
    /\ \E impl \in {"StrategyCache", "InMemoryCache"}, file \in {None} \cup Timestamps :
          cache = [impl |-> impl,
                   file |-> IF file = None THEN None
                            ELSE [last_run_timestamp |-> isoformat(file)],
                   store |-> EmptyStore,
                   calls |-> <<>>,
                   last |-> CacheCall("none", None, None, EmptyStore)]
    /\ rep = <<>> /\ app = <<>>
    /\ ContextIdle /\ ConstraintIdle /\ CompositionIdle /\ CycleIdle /\ SkillsIdle

\* A step of run_single_cycle raises: the except clause is entered.
SvcRaise(exc) ==
    svc' = [svc EXCEPT !.pc = "except", !.report = exc]

\* A step completed.
SvcDone(step) ==
    [svc EXCEPT !.pc = StepAfter(step), !.done = @ \cup {step}]

\* run_continuous calls run_single_cycle: self.cycle_count += 1
SvcStart ==
    /\ svc.kind = "service"
    /\ svc.pc \in {"idle", "returned"}
    /\ svc.cycle_count < MaxCycles
    /\ svc' = [svc EXCEPT !.pc = CycleSteps[1], !.cycle_count = @ + 1,
                          !.data = <<>>, !.stamp = None, !.ret = NoReturn,
                          !.report = "none", !.listed = {}, !.skills = 0, !.done = {},
                          !.before = [file |-> cache.file, store |-> cache.store]]
    /\ cache' = cache
    /\ ServiceUnchanged

\* strategy = OptimizationStrategy(use_minio=True, ...)
SvcLoadStrategy ==
    /\ svc.kind = "service" /\ svc.pc = "load"
    /\ \/ svc' = [SvcDone("load") EXCEPT !.strategies = @ + 1]
       \/ SvcRaise("Exception")
    /\ cache' = cache
    /\ ServiceUnchanged

\* last_timestamp = self.strategy_manager.get_last_run_timestamp()
SvcGetTimestamp ==
    /\ svc.kind = "service" /\ svc.pc = "timestamp"
    /\ \E readOk, writeOk \in Outcomes(cache.impl) :
          LET r == get_last_run_timestamp(cache, readOk, writeOk)
          IN  cache' = [cache EXCEPT !.store = r.store,
                                     !.last = CacheCall("get", None, r.ret, cache.store)]
    /\ svc' = SvcDone("timestamp")
    /\ ServiceUnchanged

\* result = db.get_latest_data(required_vars, last_timestamp)
SvcFetch ==
    /\ svc.kind = "service" /\ svc.pc = "fetch"
    /\ \/ \E data \in ServiceData, stamp \in Timestamps :
             svc' = [SvcDone("fetch") EXCEPT !.data = data, !.stamp = stamp]
       \/ SvcRaise("Exception")
    /\ cache' = cache
    /\ ServiceUnchanged

\* The loop over required_vars; if missing_vars: logger.error(...); return False
SvcCheckMissing ==
    /\ svc.kind = "service" /\ svc.pc = "check"
    /\ LET missing_vars == ServiceMissing(ServiceVariables(svc.hasCost), svc.data)
       IN  IF missing_vars # {}
           THEN svc' = [svc EXCEPT !.pc = "returned", !.ret = <<FALSE>>,
                                   !.report = "missing_variables",
                                   !.listed = missing_vars]
           ELSE svc' = SvcDone("check")
    /\ cache' = cache
    /\ ServiceUnchanged

\* strategy.run_cycle(data): the DataContext is populated, then the tasks
\* run; TRUE when it returns.  started tells whether run_cycle gets to
\* start a skill, ok whether the skills it starts all return.
RunCycleOutcome(variables, data, ok) ==
    LET r == populate_initial_data(DataContextNew(variables), data)
    IN  IF ~r.ok THEN [ok |-> FALSE, exc |-> r.exc, skills |-> 0]
        ELSE IF ok THEN [ok |-> TRUE, exc |-> "none", skills |-> 1]
        ELSE [ok |-> FALSE, exc |-> "RuntimeError", skills |-> 1]

\* final_context = strategy.run_cycle(latest_data)
SvcRunCycle ==
    /\ svc.kind = "service" /\ svc.pc = "run_cycle"
    /\ \E ok \in BOOLEAN :
          LET r == RunCycleOutcome(ServiceVariables(svc.hasCost), svc.data, ok)
          IN  IF r.ok
              THEN svc' = [SvcDone("run_cycle") EXCEPT !.skills = r.skills, !.cycles = @ + 1]
              ELSE svc' = [svc EXCEPT !.pc = "except", !.report = r.exc,
                                      !.skills = r.skills, !.cycles = @ + 1]
    /\ cache' = cache
    /\ ServiceUnchanged

\* post_process_optimization_result(final_context, strategy)
SvcPostProcess ==
    /\ svc.kind = "service" /\ svc.pc = "post_process"
    /\ \/ svc' = SvcDone("post_process")
       \/ SvcRaise("TypeError")
    /\ cache' = cache
    /\ ServiceUnchanged

\* self.strategy_manager.update_last_run_timestamp(last_timestamp): open()
\* of the timestamp file may raise, before anything is written.
SvcUpdateTimestamp ==
    /\ svc.kind = "service" /\ svc.pc = "update"
    /\ \/ \E writeOk \in Outcomes(cache.impl) :
             LET r == update_last_run_timestamp(cache, svc.stamp, writeOk)
             IN  /\ cache' = [cache EXCEPT !.file = r.file, !.store = r.store,
                                           !.last = CacheCall("update", svc.stamp, None,
                                                              cache.store)]
                 /\ svc' = SvcDone("update")
       \/ /\ SvcRaise("OSError")
          /\ cache' = cache
    /\ ServiceUnchanged

\* return True
SvcReturn ==
    /\ svc.kind = "service" /\ svc.pc = "return"
    /\ svc' = [svc EXCEPT !.pc = "returned", !.ret = <<TRUE>>]
    /\ cache' = cache
    /\ ServiceUnchanged

\* except Exception as e: logger.error(...); return False
SvcExcept ==
    /\ svc.kind = "service" /\ svc.pc = "except"
    /\ svc' = [svc EXCEPT !.pc = "returned", !.ret = <<FALSE>>]
    /\ cache' = cache
    /\ ServiceUnchanged


\* The bodies posted to the optimize endpoint: not JSON, JSON that is not an
\* object, and objects with or without input_data and config, each an
\* object or not, config with any of its sections.
ConfigSections == {"variables", "skills", "tasks"}

ApiRequest(is_json, is_object, fields, objects, sections, data) ==
    [is_json |-> is_json, is_object |-> is_object, fields |-> fields, objects |-> objects,
     sections |-> sections, data |-> data]

ApiRequests ==
    {ApiRequest(FALSE, FALSE, {}, {}, {}, <<>>), ApiRequest(TRUE, FALSE, {}, {}, {}, <<>>)}
    \cup {ApiRequest(TRUE, TRUE, fields, objects, sections, data) :
             fields \in SUBSET {"input_data", "config"},
             objects \in SUBSET {"input_data", "config"},
             sections \in SUBSET ConfigSections,
             data \in ServiceData}

\* The requests as they differ: what is not there has no content.
CanonicalRequests ==
    {r \in ApiRequests :
        /\ r.objects \subseteq r.fields
        /\ "config" \notin r.objects => r.sections = {}
        /\ "input_data" \notin r.objects => r.data = <<>>}

\* _validate_request_data: TRUE when it returns (True, "").
validate_request_data(data) ==
    /\ data.is_object
    /\ \A field \in {"input_data", "config"} : field \in data.fields
    /\ "input_data" \in data.objects
    /\ "config" \in data.objects
    /\ \A section \in ConfigSections : section \in data.sections

\* The response is sent.
ApiRespond(status, report) ==
    [svc EXCEPT !.pc = "responded", !.status = status, !.report = report]

\* A POST to /optimize arrives.
ApiReceive ==
    /\ svc.kind = "api"
    /\ svc.pc \in {"idle", "responded"}
    /\ svc.cycle_count < MaxCycles
    /\ \E request \in CanonicalRequests :
          svc' = [svc EXCEPT !.pc = "validate", !.cycle_count = @ + 1,
                             !.request = request, !.data = request.data,
                             !.status = 0, !.report = "none", !.listed = {},
                             !.skills = 0, !.strategies = 0, !.cycles = 0, !.done = {}]
    /\ cache' = cache
    /\ ServiceUnchanged

\* _run_optimization up to the call of _run_single_optimization_cycle.
ApiValidate ==
    /\ svc.kind = "api" /\ svc.pc = "validate"
    /\ IF ~svc.request.is_json THEN svc' = ApiRespond(400, "not_json")
       ELSE IF ~validate_request_data(svc.request) THEN svc' = ApiRespond(400, "invalid")
       ELSE svc' = [svc EXCEPT !.pc = "build", !.done = @ \cup {"validate"}]
    /\ cache' = cache
    /\ ServiceUnchanged

\* The temporary file is written and OptimizationStrategy(config_path=...)
\* is built, or raises on the content of the sections.
ApiBuildStrategy ==
    /\ svc.kind = "api" /\ svc.pc = "build"
    /\ \/ svc' = [svc EXCEPT !.pc = "check", !.strategies = @ + 1,
                             !.done = @ \cup {"build"}]
       \/ svc' = ApiRespond(500, "ValueError")
    /\ cache' = cache
    /\ ServiceUnchanged

\* if missing_vars: raise ValueError(f"Missing required variables in
\* input_data: {missing_vars}")
ApiCheckMissing ==
    /\ svc.kind = "api" /\ svc.pc = "check"
    /\ LET missing_vars == ApiMissing(ServiceVariables(svc.hasCost), svc.data)
       IN  IF missing_vars # {}
           THEN svc' = [ApiRespond(500, "missing_variables") EXCEPT !.listed = missing_vars]
           ELSE svc' = [svc EXCEPT !.pc = "run_cycle", !.done = @ \cup {"check"}]
    /\ cache' = cache
    /\ ServiceUnchanged

\* final_context = strategy.run_cycle(input_data)
ApiRunCycle ==
    /\ svc.kind = "api" /\ svc.pc = "run_cycle"
    /\ \E ok \in BOOLEAN :
          LET r == RunCycleOutcome(ServiceVariables(svc.hasCost), svc.data, ok)
          IN  IF r.ok
              THEN svc' = [svc EXCEPT !.pc = "extract", !.skills = r.skills,
                                      !.cycles = @ + 1, !.done = @ \cup {"run_cycle"}]
              ELSE svc' = [ApiRespond(500, r.exc) EXCEPT !.skills = r.skills,
                                                         !.cycles = @ + 1]
    /\ cache' = cache
    /\ ServiceUnchanged

\* _extract_optimization_results reading the cost through has_variable.
extract_optimization_results_guarded(variables) == Ok(<<>>)

\* _extract_optimization_results: the loop over the variables catches what
\* it raises; final_context.get_variable('cost_function_total') is outside
\* of it.
extract_optimization_results(variables) ==
    LET cost_var == get_variable(DataContextNew(variables), "cost_function_total")
    IN  IF cost_var.ok THEN Ok(<<>>) ELSE Raise(cost_var.exc, <<>>)

\* results = self._extract_optimization_results(final_context, strategy);
\* status_code = 200 if result['status'] == 'success' else 500
ApiExtract ==
    /\ svc.kind = "api" /\ svc.pc = "extract"
    /\ LET r == extract_optimization_results(ServiceVariables(svc.hasCost))
       IN  IF r.ok THEN svc' = [ApiRespond(200, "none") EXCEPT !.done = @ \cup {"extract"}]
           ELSE svc' = ApiRespond(500, r.exc)
    /\ cache' = cache
    /\ ServiceUnchanged

NextService ==
    \/ SvcStart
    \/ SvcLoadStrategy
    \/ SvcGetTimestamp
    \/ SvcFetch
    \/ SvcCheckMissing
    \/ SvcRunCycle
    \/ SvcPostProcess
    \/ SvcUpdateTimestamp
    \/ SvcReturn
    \/ SvcExcept
    \/ ApiReceive
    \/ ApiValidate
    \/ ApiBuildStrategy
    \/ ApiCheckMissing
    \/ ApiRunCycle
    \/ ApiExtract

SpecService == InitService /\ [][NextService]_vars

-----------------------------------------------------------------------------
(* Claims on the service and the API                                       *)

\* The live data reached the missing variables check of a cycle that has
\* ended.
CycleEnded ==
    /\ svc # <<>>
    /\ \/ svc.kind = "service" /\ svc.pc = "returned" /\ "fetch" \in svc.done
       \/ svc.kind = "api" /\ svc.pc = "responded" /\ "build" \in svc.done

\* C22: when an Operative or Informative variable is absent or null in the
\* live data, the cycle ends before any skill executes and reports the
\* missing variables condition, which lists every absent id.
C22_MissingRequiredInput ==
    (CycleEnded /\ ServiceMissing(ServiceVariables(svc.hasCost), svc.data) # {}) =>
        /\ svc.skills = 0
        /\ svc.report = "missing_variables"
        /\ ApiMissing(ServiceVariables(svc.hasCost), svc.data) \subseteq svc.listed

\* The same of run_single_cycle alone, listing the null variables too.
C22_ServiceMissingInput ==
    (CycleEnded /\ svc.kind = "service"
        /\ ServiceMissing(ServiceVariables(svc.hasCost), svc.data) # {}) =>
        /\ svc.skills = 0
        /\ svc.report = "missing_variables"
        /\ svc.listed = ServiceMissing(ServiceVariables(svc.hasCost), svc.data)

\* What get_last_run_timestamp returns from a file and a cache.
PersistedTimestamp(impl, file, store) ==
    IF store.last_run # None THEN CacheGetTimestamp(impl, store, TRUE)
    ELSE load_timestamp_from_file(file)

\* C24: run_single_cycle returns False when a step fails, and then the
\* timestamp file is as it was and the cached timestamp is as it was or the
\* one of the file; the timestamp is written only after run_cycle and the
\* post-processing completed; a cycle that returns True has written it.
C24_FailedCycleKeepsTimestamp ==
    (svc # <<>> /\ svc.kind = "service" /\ svc.before # <<>>) =>
        /\ svc.pc = "except" => svc.ret = NoReturn
        /\ (svc.pc = "returned" /\ svc.report # "none") => svc.ret = <<FALSE>>
        /\ (svc.pc = "returned" /\ svc.ret = <<FALSE>>) =>
              /\ cache.file = svc.before.file
              /\ PersistedTimestamp(cache.impl, cache.file, cache.store)
                    = PersistedTimestamp(cache.impl, svc.before.file, svc.before.store)
              /\ cache.store.last_run # svc.before.store.last_run
                    => svc.before.store.last_run = None
        /\ "update" \in svc.done => {"run_cycle", "post_process"} \subseteq svc.done
        /\ "update" \notin svc.done => cache.file = svc.before.file
        /\ (svc.pc = "returned" /\ svc.ret = <<TRUE>>) =>
              /\ {"run_cycle", "post_process", "update"} \subseteq svc.done
              /\ load_timestamp_from_file(cache.file) = svc.stamp

\* The same of the cycles that start with a cached timestamp that is the one
\* of the file, or with none.
C24_ConsistentCacheKeepsTimestamp ==
    (svc # <<>> /\ svc.kind = "service" /\ svc.before # <<>>
        /\ svc.before.store.last_run # None
              => CacheGetTimestamp(cache.impl, svc.before.store, TRUE)
                    = load_timestamp_from_file(svc.before.file))
        => C24_FailedCycleKeepsTimestamp

\* The request the claim calls invalid: an empty object, no input_data, no
\* config, or a config without one of its sections.
InvalidRequest(request) ==
    /\ request.is_json /\ request.is_object
    /\ \/ "input_data" \notin request.fields
       \/ "config" \notin request.fields
       \/ ("config" \in request.objects /\ request.sections # ConfigSections)

\* C27: an invalid request is answered 400 with no Strategy built and no
\* cycle run; a request that passes the validation is answered 200 when the
\* cycle succeeds and 500 when it fails.
C27_RequestValidation ==
    (svc # <<>> /\ svc.kind = "api" /\ svc.pc = "responded") =>
        /\ InvalidRequest(svc.request)
              => svc.status = 400 /\ svc.strategies = 0 /\ svc.cycles = 0
        /\ "validate" \in svc.done =>
              IF "run_cycle" \in svc.done THEN svc.status = 200 ELSE svc.status = 500

\* The part of C27 on the invalid requests and on the failed cycles.
C27_InvalidAndFailed ==
    (svc # <<>> /\ svc.kind = "api" /\ svc.pc = "responded") =>
        /\ InvalidRequest(svc.request)
              => svc.status = 400 /\ svc.strategies = 0 /\ svc.cycles = 0
        /\ ("validate" \in svc.done /\ "run_cycle" \notin svc.done) => svc.status = 500
        /\ svc.status = 200 => "run_cycle" \in svc.done

-----------------------------------------------------------------------------
(* SpecApp: ProcessOptimizationApp.start and the threads that run cycles.  *)
(*                                                                         *)
(* app.mode is the mode; app.loop the OptimizationThread: "off" when the   *)
(* mode does not start it, "waiting" between two cycles, "in_cycle" inside *)
(* run_single_cycle, "stopped" after shutdown; app.cycle_count the cycles  *)
(* it started; app.requests the thread of each request the threaded server *)
(* is handling: "none", "handling" before and after its cycle, "in_cycle"  *)
(* inside _run_single_optimization_cycle; app.shutdown the shutdown event. *)

Modes == {"continuous", "api", "hybrid"}

\* The cycles in flight.
InFlight ==
    (IF app.loop = "in_cycle" THEN 1 ELSE 0)
        + Cardinality({r \in DOMAIN app.requests : app.requests[r] = "in_cycle"})

AppUnchanged ==
    UNCHANGED <<ctxVars, consVars, compVars, cycVars, skillVars, rep, svc, cache>>

\* start(): the OptimizationThread is started in the modes continuous and
\* hybrid, the API service in the modes api and hybrid.
InitApp ==
    /\ \E mode \in Modes :
          app = [mode |-> mode,
                 loop |-> IF mode \in {"continuous", "hybrid"} THEN "waiting" ELSE "off",
                 cycle_count |-> 0,
                 requests |-> [r \in 1..MaxRequests |-> "none"],
                 served |-> 0,
                 shutdown |-> FALSE]
    /\ rep = <<>> /\ svc = <<>> /\ cache = <<>>
    /\ ContextIdle /\ ConstraintIdle /\ CompositionIdle /\ CycleIdle /\ SkillsIdle

\* run_continuous: while not self.shutdown_event.is_set(): run_single_cycle()
LoopCycleBegin ==
    /\ app.loop = "waiting"
    /\ ~app.shutdown
    /\ app.cycle_count < MaxCycles
    /\ app' = [app EXCEPT !.loop = "in_cycle", !.cycle_count = @ + 1]
    /\ AppUnchanged

\* run_single_cycle returns; the loop waits for a minute or for the shutdown.
LoopCycleEnd ==
    /\ app.loop = "in_cycle"
    /\ app' = [app EXCEPT !.loop = "waiting"]
    /\ AppUnchanged

\* The loop finds the shutdown event set and ends.
LoopStop ==
    /\ app.loop = "waiting"
    /\ app.shutdown
    /\ app' = [app EXCEPT !.loop = "stopped"]
    /\ AppUnchanged

\* app.run(..., threaded=True): a request arrives and gets a thread of its
\* own.
RequestArrive ==
    /\ app.mode \in {"api", "hybrid"}
    /\ ~app.shutdown
    /\ app.served < MaxCycles
    /\ \E r \in DOMAIN app.requests :
          /\ app.requests[r] = "none"
          /\ app' = [app EXCEPT !.requests[r] = "handling", !.served = @ + 1]
    /\ AppUnchanged

\* _run_optimization calls _run_single_optimization_cycle.
RequestCycleBegin ==
    /\ \E r \in DOMAIN app.requests :
          /\ app.requests[r] = "handling"
          /\ app' = [app EXCEPT !.requests[r] = "in_cycle"]
    /\ AppUnchanged

\* _run_single_optimization_cycle returns and the response is sent.
RequestCycleEnd ==
    /\ \E r \in DOMAIN app.requests :
          /\ app.requests[r] = "in_cycle"
          /\ app' = [app EXCEPT !.requests[r] = "none"]
    /\ AppUnchanged

\* A request that fails the validation is answered without a cycle.
RequestRejected ==
    /\ \E r \in DOMAIN app.requests :
          /\ app.requests[r] = "handling"
          /\ app' = [app EXCEPT !.requests[r] = "none"]
    /\ AppUnchanged

\* The signal handler sets the shutdown event.
AppShutdown ==
    /\ ~app.shutdown
    /\ app' = [app EXCEPT !.shutdown = TRUE]
    /\ AppUnchanged

NextApp ==
    \/ LoopCycleBegin
    \/ LoopCycleEnd
    \/ LoopStop
    \/ RequestArrive
    \/ RequestCycleBegin
    \/ RequestCycleEnd
    \/ RequestRejected
    \/ AppShutdown

SpecApp == InitApp /\ [][NextApp]_vars

\* C23: in every mode a cycle, started by the continuous loop or by a
\* request, never starts while another cycle is in flight.
C23_NoOverlappingCycles ==
    app # <<>> => InFlight <= 1

\* The same of the mode continuous alone.
C23_ContinuousNoOverlap ==
    (app # <<>> /\ app.mode = "continuous") => InFlight <= 1

-----------------------------------------------------------------------------
(* SpecObjective: the objective evaluations of one OptimizationSkill       *)
(* search whose cost skill is a CompositionSkill.                          *)
(*                                                                         *)
(* comp and pool follow cost_skill.execute(context) of the evaluation in   *)
(* progress.  opt.nfev counts the evaluations begun, opt.phase tells       *)
(* whether the solver is between two evaluations ("minimize"), inside      *)
(* objective(x) ("objective") or left by an exception ("raised"), and      *)
(* opt.leftover holds the work items of earlier evaluations that had not   *)
(* finished when an evaluation began.                                      *)

\* The work items of the pool that have not finished.
Unfinished == {p \in DOMAIN pool : pool[p] \in {"queued", "taken", "running"}}

ObjectiveUnchanged ==
    UNCHANGED <<variables_config, ctx, call, cons, trace, cfg, cyc, hist, skillVars,
                serviceVars>>

InitObjective ==
    /\ \E seq \in UNION {[1..n -> SkillClasses] : n \in 0..MaxSeq} :
        /\ comp = [seq |-> seq, pc |-> "idle", i |-> 1, first |-> 1, last |-> 0,
                   next |-> 1, exc |-> FALSE]
        /\ pool = [p \in 1..Len(seq) |-> "idle"]
    /\ trace = {}
    /\ opt = [nfev |-> 0, phase |-> "minimize", leftover |-> {}]
    /\ cfg = <<>> /\ cyc = <<>> /\ hist = <<>>
    /\ ContextIdle /\ ConstraintIdle /\ SkillsIdle /\ ServiceIdle

\* minimize calls objective(x): the candidate is written into the decision
\* variables and cost_skill.execute(context) is entered.
ObjBegin ==
    /\ opt.phase = "minimize"
    /\ opt.nfev < MaxEvals
    /\ opt' = [opt EXCEPT !.nfev = @ + 1, !.phase = "objective",
                          !.leftover = @ \cup Unfinished]
    /\ comp' = [comp EXCEPT !.pc = "loop", !.i = 1, !.first = 1, !.last = 0,
                            !.next = 1, !.exc = FALSE]
    /\ pool' = [p \in DOMAIN pool |-> "idle"]
    /\ ObjectiveUnchanged

\* cost_skill.execute(context) returned: the cost is read and returned to
\* the solver.
ObjReturn ==
    /\ opt.phase = "objective"
    /\ comp.pc = "returned"
    /\ opt' = [opt EXCEPT !.phase = "minimize"]
    /\ UNCHANGED <<comp, pool>>
    /\ ObjectiveUnchanged

\* cost_skill.execute(context) raised: the exception leaves objective and
\* minimize.
ObjRaise ==
    /\ opt.phase = "objective"
    /\ comp.pc = "raised"
    /\ opt' = [opt EXCEPT !.phase = "raised"]
    /\ UNCHANGED <<comp, pool>>
    /\ ObjectiveUnchanged

NextObjective ==
    \/ ObjBegin
    \/ ObjReturn
    \/ ObjRaise
    \/ CompReturn
    \/ CompSequentialBegin
    \/ CompSequentialReturns
    \/ CompSequentialRaises
    \/ CompCollectGroup
    \/ CompSubmit
    \/ WorkerTake
    \/ WorkerBegin
    \/ WorkerReturns
    \/ WorkerRaises
    \/ CompFutureResultReturns
    \/ CompFutureResultRaises
    \/ CompShutdown

SpecObjective == InitObjective /\ [][NextObjective]_vars

\* C30: an objective evaluation starts only after the one before it has
\* returned, the join of the worker pool of its cost skill included: no
\* work item of an earlier evaluation is unfinished when an evaluation
\* begins, and outside of objective(x) no worker thread is running.
C30_SequentialEvaluations ==
    (comp # <<>> /\ opt # <<>>) =>
        /\ opt.leftover = {}
        /\ opt.phase # "objective" => Unfinished = {}
        /\ comp.pc \in {"returned", "raised"} => Unfinished = {}

\* The second evaluation runs two InferenceModels of its cost skill at the
\* same time.
C30_Witness ==
    /\ comp # <<>> /\ opt # <<>>
    /\ opt.nfev = 2
    /\ opt.phase = "objective"
    /\ Cardinality({p \in DOMAIN pool : pool[p] = "running"}) >= 2

-----------------------------------------------------------------------------
(* SpecRepeat: one Strategy over several run_cycle calls.                  *)
(*                                                                         *)
(* What a Strategy keeps between two calls is its skills: the symbol table *)
(* of the interpreter of each MathFunction.  rep.tables holds them,        *)
(* rep.previous the DataContext of the call before, rep.at where the call  *)
(* being made is, rep.runs the calls made and how each ended.  The solver  *)
(* is any function of the starting point, the bounds and the costs it is   *)
(* returned: rep.step is the step it takes from x0 and rep.verdict tells,  *)
(* for the data met so far, whether it converges.                          *)

SkillReturn(ok, exc, context, tables) ==
    [ok |-> ok, exc |-> exc, context |-> context, tables |-> tables]

RECURSIVE ExecuteSkillWith(_, _, _, _)
RECURSIVE ExecuteSequenceWith(_, _, _, _, _)

\* CompositionSkill.execute from position i, the skills keeping their
\* interpreters.
ExecuteSequenceWith(skills, names, i, context, tables) ==
    IF i > Len(names) THEN SkillReturn(TRUE, "none", context, tables)
    ELSE LET r == ExecuteSkillWith(skills, names[i], context, tables)
         IN  IF ~r.ok THEN r
             ELSE ExecuteSequenceWith(skills, names, i + 1, r.context, r.tables)

\* skill.execute(context) of the skill skills[name] of a Strategy, tables
\* being the symbol tables its MathFunctions hold.
ExecuteSkillWith(skills, name, context, tables) ==
    LET config == skills[name]
    IN  CASE config.class = "MathFunction" ->
                LET r == MathFunctionExecuteWith(config, tables[name], context)
                IN  SkillReturn(r.ok, r.exc, r.context, [tables EXCEPT ![name] = r.symtable])
          [] config.class = "CompositionSkill" ->
                ExecuteSequenceWith(skills, config.config.skill_sequence, 1, context, tables)

\* The point a step away from x0, within the bounds.
StepFrom(x0, bounds, step) ==
    [n \in DOMAIN x0 |->
        LET x == FAdd(x0[n], MkF(step))
        IN  IF FLt(x, bounds[n][1]) THEN bounds[n][1]
            ELSE IF FLt(bounds[n][2], x) THEN bounds[n][2]
            ELSE x]

\* What a step of a run_cycle call returns: how it ended, the context, the
\* interpreters, and the starting point and the costs of the search.
SearchReturn(ok, exc, context, tables, x0, costs) ==
    [ok |-> ok, exc |-> exc, context |-> context, tables |-> tables, x0 |-> x0,
     costs |-> costs]

\* Where a run_cycle call is: before skill s of task t (phase "skill"), in
\* the search of that skill (phases "write", "cost" and "store"), or ended.
CycleAt(t, s, phase, r) ==
    [done |-> FALSE, t |-> t, s |-> s, phase |-> phase, ok |-> TRUE, exc |-> "none",
     context |-> r.context, tables |-> r.tables, x0 |-> r.x0, costs |-> r.costs]

CycleEnd(r) ==
    [done |-> TRUE, t |-> 0, s |-> 0, phase |-> "skill", ok |-> r.ok, exc |-> r.exc,
     context |-> r.context, tables |-> r.tables, x0 |-> r.x0, costs |-> r.costs]

\* The decision variables of a search.
SearchIds(env, skill) ==
    OptimizableInputs(skill.inputs, get_optimizable_variable_ids(env.variables, env.config))

\* The points the solver evaluates: x0, then the point a step away.
SearchPoint(env, skill, at) ==
    LET ids == SearchIds(env, skill)
        bounds == [n \in DOMAIN ids |-> OptBounds(at.context[ids[n]])]
    IN  IF at.costs = <<>> THEN at.x0 ELSE StepFrom(at.x0, bounds, env.step)

\* OptimizationSkill.execute up to minimize: the cost skill is looked up,
\* the decision variables without a current value repaired, x0 read.
SearchBegin(env, skill, at) ==
    LET ids == SearchIds(env, skill)
        repaired == FixMissingCurrent(at.context, ids, 1)
        x0 == [n \in DOMAIN ids |-> repaired[ids[n]].current_value]
    IN  IF skill.config.cost_skill_name \notin DOMAIN env.config.skills
        THEN CycleEnd([at EXCEPT !.ok = FALSE, !.exc = "KeyError"])
        ELSE CycleAt(at.t, at.s, "write",
                     SearchReturn(TRUE, "none", repaired, at.tables, x0, <<>>))

\* objective(x), the loop over the decision variables: the dof values of
\* the point the solver evaluates are written.
SearchWrite(env, skill, at) ==
    CycleAt(at.t, at.s, "cost",
            [at EXCEPT !.context = WriteDof(at.context, SearchIds(env, skill),
                                            SearchPoint(env, skill, at), 1)])

\* objective(x), after the loop: the cost skill is executed and the cost
\* read.
SearchCost(env, skill, at) ==
    LET r == ExecuteSkillWith(env.config.skills, skill.config.cost_skill_name,
                              at.context, at.tables)
        costs == Append(at.costs, r.context[skill.config.cost_feature_name].dof_value)
    IN  IF ~r.ok
        THEN CycleEnd(SearchReturn(FALSE, r.exc, r.context, r.tables, at.x0, at.costs))
        ELSE CycleAt(at.t, at.s, IF Len(costs) < 2 THEN "write" ELSE "store",
                     SearchReturn(TRUE, "none", r.context, r.tables, at.x0, costs))

\* The solver returns the better of the two points and
\* _store_optimal_values_in_context stores it.
SearchStore(env, skill, at) ==
    LET result == [success |-> env.success,
                   x |-> IF FLt(at.costs[2], at.costs[1])
                         THEN SearchPoint(env, skill, at) ELSE at.x0]
        stored == StoreOptimalValues(at.context, SearchIds(env, skill), result)
    IN  IF ~stored.ok
        THEN CycleEnd(SearchReturn(FALSE, stored.exc, stored.context, at.tables,
                                   at.x0, at.costs))
        ELSE CycleAt(at.t, NextSkill(at.s), "skill",
                     SearchReturn(TRUE, "none", stored.context, at.tables, at.x0,
                                  at.costs))

\* One pass of the loops of run_cycle: the next skill is executed (a search
\* in the steps of its solver), a task ends (the calculated variables
\* promoted after PreCalculateVariables), or the call returns or raises.
CycleStep(env, at) ==
    LET tasks == env.config.tasks
        skills == env.config.skills
    IN  IF at.t > Len(tasks) THEN CycleEnd(at)
        ELSE IF at.s > Len(tasks[at.t].skill_sequence)
        THEN CycleAt(at.t + 1, 1, "skill",
                     [at EXCEPT !.context =
                         IF IsPreCalculationTask(tasks[at.t])
                         THEN mark_calculated_as_operative(env.variables, at.context)
                         ELSE at.context])
        ELSE LET name == tasks[at.t].skill_sequence[at.s]
             IN  IF name \notin DOMAIN skills
                 THEN CycleEnd([at EXCEPT !.ok = FALSE, !.exc = "ValueError"])
                 ELSE IF skills[name].class = "OptimizationSkill"
                 THEN CASE at.phase = "skill" -> SearchBegin(env, skills[name], at)
                        [] at.phase = "write" -> SearchWrite(env, skills[name], at)
                        [] at.phase = "cost" -> SearchCost(env, skills[name], at)
                        [] at.phase = "store" -> SearchStore(env, skills[name], at)
                 ELSE LET r == ExecuteSkillWith(skills, name, at.context, at.tables)
                          after == SearchReturn(r.ok, r.exc, r.context, r.tables,
                                                at.x0, at.costs)
                      IN  IF ~r.ok THEN CycleEnd(after)
                          ELSE CycleAt(at.t, NextSkill(at.s), "skill", after)

\* The loops of run_cycle to their end.
RECURSIVE RunTasks(_, _)
RunTasks(env, at) == IF at.done THEN at ELSE RunTasks(env, CycleStep(env, at))

\* The DataContext of a cycle taken over from the cycle before.
CycleContextReused(variables, previous) ==
    IF previous = NoContext THEN DataContextNew(variables) ELSE previous

\* data_context = DataContext(self.variables_config)
CycleContext(variables, previous) == DataContextNew(variables)

\* run_cycle(initial_data) up to its loops, on a Strategy whose skills hold
\* tables, previous being the DataContext of its previous call.
CycleStart(env, data, previous, tables) ==
    LET r == populate_initial_data(CycleContext(env.variables, previous), data)
    IN  IF ~r.ok THEN CycleEnd(SearchReturn(FALSE, r.exc, r.context, tables, <<>>, <<>>))
        ELSE CycleAt(1, 1, "skill",
                     SearchReturn(TRUE, "none", r.context, tables, <<>>, <<>>))

\* run_cycle(initial_data).
RunCycleWith(env, data, previous, tables) ==
    RunTasks(env, CycleStart(env, data, previous, tables))

\* The configurations a Strategy is built from.
RepeatConfigNames == {"direct", "nested", "failing"}

\* initial_data of the calls: a and b measured, c absent or measured.
RepeatData ==
    {<< <<"a", PyInt(1)>>, <<"b", PyFlt(MkF(1))>> >> \o tail :
        tail \in {<<>>} \cup {<< <<"c", PyInt(vc)>> >> : vc \in {1, 2}}}

\* The interpreters of a Strategy just built.
NewTables(skills) ==
    [name \in {n \in DOMAIN skills : skills[n].class = "MathFunction"} |-> <<>>]

RepeatEnv(success) ==
    [config |-> cfg, variables |-> variables_config, step |-> rep.step, success |-> success]

RepeatUnchanged ==
    UNCHANGED <<variables_config, call, cons, comp, pool, trace, cfg, cyc, opt, hist,
                skillVars, svc, app, cache>>

NoRun == [done |-> TRUE]

\* OptimizationStrategy(...): the skills are built.
InitRepeat ==
    /\ \E name \in RepeatConfigNames :
          /\ cfg = StrategyConfig(name)
          /\ variables_config = CycleVariables(name)
    /\ \E step \in {-1, 1} :
          rep = [step |-> step, tables |-> NewTables(cfg.skills), previous |-> NoContext,
                 verdict |-> {}, runs |-> <<>>, at |-> NoRun, data |-> <<>>,
                 success |-> TRUE]
    /\ ctx = NoContext /\ call = NoCall
    /\ cyc = <<>> /\ opt = <<>> /\ hist = <<>>
    /\ svc = <<>> /\ app = <<>> /\ cache = <<>>
    /\ ConstraintIdle /\ CompositionIdle /\ SkillsIdle

\* strategy.run_cycle(data) is called: the DataContext is made and
\* populated.  The solver will converge or not as it did on the same data
\* before.
RepRunCycle ==
    /\ rep.at = NoRun
    /\ Len(rep.runs) < MaxRepeat
    /\ \E data \in RepeatData, success \in BOOLEAN :
          /\ \A v \in rep.verdict : v[1] = data => v[2] = success
          /\ rep' = [rep EXCEPT !.at = CycleStart(RepeatEnv(success), data,
                                                  rep.previous, rep.tables),
                                !.data = data,
                                !.success = success,
                                !.verdict = @ \cup {<<data, success>>}]
    /\ ctx' = rep'.at.context
    /\ RepeatUnchanged

\* run_cycle goes on by one pass of its loops.
RepStep ==
    /\ rep.at # NoRun
    /\ ~rep.at.done
    /\ rep' = [rep EXCEPT !.at = CycleStep(RepeatEnv(rep.success), rep.at)]
    /\ ctx' = rep'.at.context
    /\ RepeatUnchanged

\* run_cycle returns or raises; the skills keep their interpreters.
RepEnd ==
    /\ rep.at # NoRun
    /\ rep.at.done
    /\ rep' = [rep EXCEPT !.at = NoRun,
                          !.tables = rep.at.tables,
                          !.previous = rep.at.context,
                          !.runs = Append(@, [data |-> rep.data,
                                              success |-> rep.success,
                                              outcome |-> [ok |-> rep.at.ok,
                                                           exc |-> rep.at.exc,
                                                           context |-> rep.at.context,
                                                           x0 |-> rep.at.x0]])]
    /\ UNCHANGED ctx
    /\ RepeatUnchanged

\* A Strategy is built anew from the same configuration.
RepRebuild ==
    /\ rep.at = NoRun
    /\ rep.runs # <<>>
    /\ rep.tables # NewTables(cfg.skills)
    /\ rep' = [rep EXCEPT !.tables = NewTables(cfg.skills), !.previous = NoContext]
    /\ ctx' = NoContext
    /\ RepeatUnchanged

NextRepeat ==
    \/ RepRunCycle
    \/ RepStep
    \/ RepEnd
    \/ RepRebuild

SpecRepeat == InitRepeat /\ [][NextRepeat]_vars

\* run_cycle(data) on a Strategy just built.
FirstRun(data, success) ==
    RunCycleWith(RepeatEnv(success), data, NoContext, NewTables(cfg.skills))

\* Two calls ended the same: both returned or both raised the same
\* exception, from the same starting point, with the same values in the
\* context.
SameOutcome(p, q) ==
    /\ p.ok = q.ok
    /\ p.exc = q.exc
    /\ p.x0 = q.x0
    /\ p.context = q.context

\* C21: no state persists across cycles: whatever cycles ran before on the
\* Strategy, those that failed midway included, a run_cycle call ends as it
\* does on a Strategy just built (a fresh DataContext, the search starting
\* from the current_value of this cycle, the same values in the context
\* returned), and two calls with the same data end the same.
C21_NoStateAcrossCycles ==
    rep # <<>> =>
        /\ \A n \in DOMAIN rep.runs :
              SameOutcome(rep.runs[n].outcome,
                          FirstRun(rep.runs[n].data, rep.runs[n].success))
        /\ \A n, m \in DOMAIN rep.runs :
              rep.runs[n].data = rep.runs[m].data
                 => SameOutcome(rep.runs[n].outcome, rep.runs[m].outcome)

\* A call that succeeded, a call on other data that failed midway (the
\* solver did not converge), then a call on the data of the first: the
\* interpreters hold the symbols of the failed cycle, and the search did
\* not start from 0.
C21_Witness ==
    /\ rep # <<>>
    /\ Len(rep.runs) = 3
    /\ rep.runs[1].outcome.ok
    /\ rep.runs[2].outcome.exc = "RuntimeError"
    /\ rep.runs[2].data # rep.runs[1].data
    /\ rep.runs[3].data = rep.runs[1].data
    /\ rep.runs[3].outcome.ok
    /\ rep.runs[3].outcome.x0 # <<>>
    /\ rep.tables # NewTables(cfg.skills)

-----------------------------------------------------------------------------
(* Claims on the slots a cycle writes, checked under SpecCycle.            *)

\* The ids of the decision variables of the running search.
DecisionIds == {opt.ids[n] : n \in DOMAIN opt.ids}

\* The step promotes the Calculated variable var_id.
PromotionWrites(var_id) ==
    /\ cyc'.last = "promotion"
    /\ var_id \in get_calculated_variable_ids(variables_config)
    /\ ctx'[var_id].current_value = ctx[var_id].dof_value

\* The step is a successful OptimizationSkill storing its optimum in the
\* decision variable var_id.
OptimumWrites(var_id) ==
    /\ cyc.pc = "minimize"
    /\ opt'.outcome = "success"
    /\ var_id \in DecisionIds

\* The step is OptimizationSkill.execute giving a decision variable without
\* a current_value the value 0.0.
RepairWrites(var_id) ==
    /\ cyc'.last = "search"
    /\ cyc'.pc = "minimize"
    /\ var_id \in {opt'.ids[n] : n \in DOMAIN opt'.ids}
    /\ ctx[var_id].current_value = None
    /\ ctx'[var_id].current_value = MkF(0)

\* A step of the cycle after populate_initial_data returned.
AfterPopulate == cyc # NoCycle /\ cyc.pc \in {"task", "minimize"} /\ ctx' # ctx

\* C31 as stated: once populate_initial_data has returned, current_value
\* changes only by the promotion of Calculated variables and
\* recommended_value only for the decision variables of a successful
\* OptimizationSkill.
C31_SlotWriteDiscipline ==
    [][AfterPopulate =>
          \A var_id \in DOMAIN ctx :
             /\ ctx'[var_id].current_value # ctx[var_id].current_value
                   => PromotionWrites(var_id)
             /\ ctx'[var_id].recommended_value # ctx[var_id].recommended_value
                   => OptimumWrites(var_id)]_vars

\* C31 amended: once populate_initial_data has returned, current_value
\* changes only by the promotion of Calculated variables or when
\* OptimizationSkill.execute sets the missing current_value of a decision
\* variable to 0.0, and recommended_value only for the decision variables
\* of a successful OptimizationSkill.
C31_SlotWritesWithRepair ==
    [][AfterPopulate =>
          \A var_id \in DOMAIN ctx :
             /\ ctx'[var_id].current_value # ctx[var_id].current_value
                   => PromotionWrites(var_id) \/ RepairWrites(var_id)
             /\ ctx'[var_id].recommended_value # ctx[var_id].recommended_value
                   => OptimumWrites(var_id)]_vars

\* A cycle returned in which k was promoted to a computed value, c had no
\* value in the data and was given 0.0 by the search, and the optimum moved
\* a recommended_value.
C31_Witness ==
    /\ cyc # NoCycle
    /\ cyc.pc = "returned"
    /\ opt.outcome = "success"
    /\ "c" \in DecisionIds
    /\ \A n \in DOMAIN cyc.data : cyc.data[n][1] # "c"
    /\ ctx["c"].current_value = MkF(0)
    /\ ctx["k"].current_value # MkF(0)
    /\ \E var_id \in DecisionIds : ctx[var_id].recommended_value # hist.rec0[var_id]

-----------------------------------------------------------------------------
(* SpecFrame: a Constraint, a MathFunction or an InferenceModel executed   *)
(* on a context: the behaviours of SpecConstraint, SpecFormula and         *)
(* SpecInference together.                                                 *)

InitFrame ==
    \/ InitConstraint
    \/ InitFormula
    \/ InitInference

NextFrame ==
    \/ cons # <<>> /\ NextConstraint
    \/ mf # <<>> /\ NextFormula
    \/ inf # <<>> /\ NextInference

SpecFrame == InitFrame /\ [][NextFrame]_vars

\* The step is an execute of the skill under execution.
ExecuteStep ==
    \/ cons # <<>>
    \/ mf # <<>> /\ mf'.runs # mf.runs
    \/ inf # <<>> /\ inf'.runs # inf.runs

\* The outputs the skill under execution declares.
DeclaredOutputs ==
    IF cons # <<>> THEN cons.outputs
    ELSE IF mf # <<>> THEN mf.skill.outputs
    ELSE inf.skill.outputs

\* C32: each execute of a MathFunction, a Constraint or an InferenceModel
\* changes at most the dof_value of its first declared output variable:
\* every slot of every other variable, and the current_value and
\* recommended_value (and threshold and type) of the output variable, are
\* left unchanged.
C32_SingleOutputFrame ==
    [][ExecuteStep =>
          /\ DOMAIN ctx' = DOMAIN ctx
          /\ \A var_id \in DOMAIN ctx :
                IF DeclaredOutputs # <<>> /\ var_id = DeclaredOutputs[1]
                THEN ctx'[var_id] = [ctx[var_id] EXCEPT !.dof_value = ctx'[var_id].dof_value]
                ELSE ctx'[var_id] = ctx[var_id]]_vars

\* A Constraint has written a score into its output that differs from the
\* current_value and recommended_value the output keeps.
C32_Witness ==
    /\ cons # <<>>
    /\ call.op = "execute"
    /\ call.exc = "none"
    /\ ctx["s"].dof_value # ctx["s"].current_value
    /\ ctx["s"].dof_value # ctx["s"].recommended_value

-----------------------------------------------------------------------------
(* Claims on the worker pool of a batch, checked under SpecComposition.    *)

\* The InferenceModel executions in progress: a worker thread holds the
\* work item or is inside execute.
InProgress ==
    {p \in DOMAIN pool : IsInferenceModel(comp.seq[p]) /\ pool[p] \in {"taken", "running"}}

\* How far the execution of a skill is.
Stage(status) ==
    CASE status = "idle" -> 0
      [] status = "queued" -> 1
      [] status = "taken" -> 2
      [] status = "running" -> 3
      [] OTHER -> 4

\* The main thread is outside the with block of a batch.
OutsideBatch == comp.pc \in {"loop", "sequential", "returned", "raised"}

\* C33: during one CompositionSkill.execute at most 4 InferenceModel
\* executions are in progress at any time; every member of a batch is
\* executed exactly once (when the sequence continues or execute returns
\* or raises each member before the position reached has finished, no
\* later one has started, and an execution never starts again); and no
\* worker thread of a batch is still running then.
C33_BoundedBatchParallelism ==
    /\ [](comp # <<>> =>
            /\ Cardinality(InProgress) <= 4
            /\ OutsideBatch =>
                  \A p \in DOMAIN pool :
                     IsInferenceModel(comp.seq[p]) =>
                        IF p < comp.i THEN Finished(p) ELSE pool[p] = "idle")
    /\ [][comp # <<>> =>
             \A p \in {q \in DOMAIN pool : IsInferenceModel(comp.seq[q])} :
                /\ Stage(pool'[p]) >= Stage(pool[p])
                /\ Stage(pool'[p]) <= Stage(pool[p]) + 1
                /\ Finished(p) => pool'[p] = pool[p]]_vars

\* A batch of five InferenceModels: four are in progress, the fifth waits
\* in the queue for a free worker.
C33_Witness ==
    /\ comp # <<>>
    /\ comp.pc = "collect"
    /\ Cardinality(InProgress) = 4
    /\ \E p \in DOMAIN pool : pool[p] = "queued"

-----------------------------------------------------------------------------
(* Claims on the context a search leaves, checked under SpecCycle.         *)

\* C34: when OptimizationSkill.execute has succeeded, the cost output and
\* every variable the cost skill computes are what the cost skill gives
\* with the decision variables at their recommended values: executing the
\* cost skill once more on the context execute left changes nothing.
C34_FinalContextConsistency ==
    (SearchSucceeded /\ cyc.last = "optimizer") =>
        LET skill == cfg.skills[CurrentTask.skill_sequence[cyc.skill - 1]]
            again == ExecuteSkill(cfg.skills, skill.config.cost_skill_name, ctx)
        IN  /\ \A n \in DOMAIN opt.ids :
                  ctx[opt.ids[n]].dof_value = ctx[opt.ids[n]].recommended_value
            /\ again.ok
            /\ again.context = ctx

-----------------------------------------------------------------------------
(* Claims on the order of promotion and search, checked under SpecCycle.   *)

\* The context the pre-calculation Task leaves when it runs on the freshly
\* populated context of the cycle.
PreCalculated ==
    LET populated == populate_initial_data(DataContextNew(variables_config), cyc.data)
    IN  ExecuteSequence(cfg.skills, cfg.tasks[PreCalculationIndex].skill_sequence, 1,
                        populated.context).context

SearchBegan == cyc # NoCycle /\ opt.outcome \in {"searching", "success", "not_success", "cost_raised"}

\* C35: whenever an OptimizationSkill has a Calculated variable among its
\* decision variables, the promotion has already fired in that cycle, and the
\* initial point and the bounds of that variable are built from the value the
\* pre-calculation computed, not from the 0.0 that populate_initial_data
\* seeds; also when the optimizing Task is configured before the
\* pre-calculation Task.
C35_PromotionPrecedesOptimization ==
    SearchBegan =>
        \A n \in DOMAIN opt.ids :
            variables_config[opt.ids[n]].type = "Calculated" =>
                LET value == PreCalculated[opt.ids[n]].dof_value
                IN  /\ \E m \in DOMAIN hist.log :
                          /\ hist.log[m].ev = "promotion"
                          /\ \E s \in (m + 1)..Len(hist.log) :
                                /\ hist.log[s].ev = "start"
                                /\ cfg.skills[cfg.tasks[hist.log[s].task]
                                      .skill_sequence[hist.log[s].skill]].class
                                      = "OptimizationSkill"
                    /\ opt.x0[n] = value
                    /\ opt.bounds[n]
                          = OptBounds([ctx[opt.ids[n]] EXCEPT !.current_value = value])


\* The same with the pre-calculation Task listed before the optimizing Task.
C35_PreCalculationFirst ==
    (cfg # NotBuilt /\ cfg.name # "reversed") => C35_PromotionPrecedesOptimization

-----------------------------------------------------------------------------
(* SpecBatch: the thread-pool CompositionSkill.execute on a DataContext,   *)
(* against the sequential CompositionSkill.execute.                        *)
(*                                                                         *)
(* comp.seq is the resolved skill_sequence and comp.start the context      *)
(* execute was called with; ctx is the context the threads share.  A       *)
(* worker reads the context (trace[p] is what it read) and later assigns   *)
(* its output; pool[p] is "idle", "queued", "reading", "done" or "failed". *)

MaxBatch == 3

\* d1, d2 Delta inputs; y1, y2, y3 Predicted outputs; k Calculated.
BatchVariables ==
    [d1 |-> [type |-> "Delta"], d2 |-> [type |-> "Delta"],
     y1 |-> [type |-> "Predicted"], y2 |-> [type |-> "Predicted"],
     y3 |-> [type |-> "Predicted"], k |-> [type |-> "Calculated"]]

Inference(inputs, output) ==
    [class |-> "InferenceModel", inputs |-> inputs, outputs |-> <<output>>,
     model |-> TRUE, scaler |-> TRUE]

\* The skills a sequence is resolved from: three models on configured
\* variables, of which to_d2 predicts the Delta variable with_d2 reads, a
\* model with an input no variable is configured for, and a formula on the
\* outputs of the models.
BatchSkills ==
    [on_d1 |-> Inference(<<"d1">>, "y1"),
     with_d2 |-> Inference(<<"d1", "d2">>, "y2"),
     to_d2 |-> Inference(<<"d1">>, "d2"),
     unknown_input |-> Inference(<<UnknownId>>, "y3"),
     total |-> [class |-> "MathFunction", inputs |-> <<"y1", "y2">>, outputs |-> <<"k">>,
                config |-> [formula |-> BinOp("+", Sym("y1"), Sym("y2"))]]]

\* The contexts execute is called with: populated from live data, a
\* candidate written into the dof_value of the Delta variables.
BatchContexts ==
    LET populated == populate_initial_data(DataContextNew(BatchVariables),
                         << <<"d1", PyInt(1)>>, <<"d2", PyInt(1)>> >>).context
    IN  {[populated EXCEPT !["d1"].dof_value = MkF(x), !["d2"].dof_value = MkF(2)] :
            x \in 1..2}

\* self.model(model_inputs) with the scalers: a fixed function of the inputs.
RECURSIVE Net(_, _)
Net(input_values, n) ==
    IF n > Len(input_values) THEN MkF(0)
    ELSE FAdd(input_values[n], Net(input_values, n + 1))

\* skill.execute(context) of a resolved skill.
SkillExecute(skill, context) ==
    IF skill.class = "InferenceModel"
    THEN LET input_values == [n \in DOMAIN skill.inputs |->
                                 IF has_variable(context, skill.inputs[n])
                                 THEN InputValue(context[skill.inputs[n]]).v ELSE MkF(0)]
         IN  InferenceModelExecute(skill, context,
                                   [raises |-> FALSE, v |-> Net(input_values, 1)])
    ELSE MathFunctionExecute(skill, context)

\* rto CompositionSkill.execute: for skill in self.skill_sequence:
\* skill.execute(context).
RECURSIVE SequentialExecute(_, _, _)
SequentialExecute(seq, i, context) ==
    IF i > Len(seq) THEN Ok(context)
    ELSE LET r == SkillExecute(seq[i], context)
         IN  IF ~r.ok THEN r ELSE SequentialExecute(seq, i + 1, r.context)

\* A worker that assigns the whole context it read.
WorkerExecuteStale(skill, read, context) ==
    LET r == SkillExecute(skill, read)
    IN  IF r.ok THEN r ELSE Raise(r.exc, context)

\* skill.execute(context) in a worker thread: the values it read, then the
\* assignment of its output's dof_value in the shared context.
WorkerExecute(skill, read, context) ==
    LET r == SkillExecute(skill, read)
        output == skill.outputs[1]
    IN  IF r.ok THEN Ok([context EXCEPT ![output].dof_value = r.context[output].dof_value])
        ELSE Raise(r.exc, context)

BatchClasses(seq) == [p \in DOMAIN seq |-> seq[p].class]

InitBatch ==
    /\ variables_config = BatchVariables
    /\ ctx \in BatchContexts
    /\ call = NoCall
    /\ \E names \in UNION {[1..n -> DOMAIN BatchSkills] : n \in 0..MaxBatch} :
          /\ comp = [seq |-> [p \in DOMAIN names |-> BatchSkills[names[p]]],
                     start |-> ctx, pc |-> "loop", i |-> 1, first |-> 1, last |-> 0,
                     next |-> 1, exc |-> "none"]
          /\ pool = [p \in DOMAIN names |-> "idle"]
          /\ trace = [p \in DOMAIN names |-> NoContext]
    /\ ConstraintIdle /\ CycleIdle /\ SkillsIdle /\ ServiceIdle

BatchUnchanged == UNCHANGED <<variables_config, call, consVars, cycVars, serviceVars, skillVars>>

\* while i < len(self.skill_sequence): the loop ends, execute returns.
BatchReturn ==
    /\ comp.pc = "loop" /\ comp.i > Len(comp.seq)
    /\ comp' = [comp EXCEPT !.pc = "returned"]
    /\ UNCHANGED <<ctx, pool, trace>>
    /\ BatchUnchanged

\* A skill that is no InferenceModel: skill.execute(context); i += 1.
BatchSequential ==
    /\ comp.pc = "loop" /\ comp.i <= Len(comp.seq)
    /\ ~IsInferenceModel(comp.seq[comp.i].class)
    /\ LET r == SkillExecute(comp.seq[comp.i], ctx)
       IN  /\ ctx' = r.context
           /\ pool' = [pool EXCEPT ![comp.i] = IF r.ok THEN "done" ELSE "failed"]
           /\ comp' = IF r.ok THEN [comp EXCEPT !.i = @ + 1]
                      ELSE [comp EXCEPT !.pc = "raised", !.exc = r.exc]
    /\ trace' = trace
    /\ BatchUnchanged

\* The consecutive InferenceModels from i on are collected and each is
\* submitted to the executor.
BatchSubmit ==
    /\ comp.pc = "loop" /\ comp.i <= Len(comp.seq)
    /\ IsInferenceModel(comp.seq[comp.i].class)
    /\ LET end == InferenceGroupEnd(BatchClasses(comp.seq), comp.i)
       IN  /\ comp' = [comp EXCEPT !.pc = "collect", !.first = comp.i, !.last = end - 1,
                                   !.next = comp.i, !.i = end]
           /\ pool' = [p \in DOMAIN pool |->
                          IF p \in comp.i..(end - 1) THEN "queued" ELSE pool[p]]
    /\ UNCHANGED <<ctx, trace>>
    /\ BatchUnchanged

\* A worker thread takes the oldest work item and its execute reads the
\* context.
BatchWorkerRead ==
    /\ \E p \in DOMAIN pool :
        /\ pool[p] = "queued"
        /\ \A q \in DOMAIN pool : pool[q] = "queued" => p <= q
        /\ Cardinality({q \in DOMAIN pool : pool[q] = "reading"}) < MaxWorkers
        /\ pool' = [pool EXCEPT ![p] = "reading"]
        /\ trace' = [trace EXCEPT ![p] = ctx]
    /\ UNCHANGED <<ctx, comp>>
    /\ BatchUnchanged

\* The execute of a worker thread assigns its output and returns, or raises.
BatchWorkerWrite ==
    /\ \E p \in DOMAIN pool :
        /\ pool[p] = "reading"
        /\ LET r == WorkerExecute(comp.seq[p], trace[p], ctx)
           IN  /\ ctx' = r.context
               /\ pool' = [pool EXCEPT ![p] = IF r.ok THEN "done" ELSE "failed"]
               /\ trace' = [trace EXCEPT ![p] = IF r.ok THEN NoContext ELSE <<r.exc>>]
    /\ comp' = comp
    /\ BatchUnchanged

\* future.result() of the next future returns, or raises what the member
\* raised: the exception is logged and raised again.
BatchFutureResult ==
    /\ comp.pc = "collect"
    /\ pool[comp.next] \in {"done", "failed"}
    /\ comp' = IF pool[comp.next] = "failed"
               THEN [comp EXCEPT !.pc = "shutdown", !.exc = trace[comp.next][1]]
               ELSE IF comp.next = comp.last THEN [comp EXCEPT !.pc = "shutdown"]
               ELSE [comp EXCEPT !.next = @ + 1]
    /\ UNCHANGED <<ctx, pool, trace>>
    /\ BatchUnchanged

\* The with block is left once every submitted work item has run: the
\* sequence continues or the pending exception leaves execute.
BatchShutdown ==
    /\ comp.pc = "shutdown"
    /\ ShutdownReturns
    /\ comp' = [comp EXCEPT !.pc = IF comp.exc # "none" THEN "raised" ELSE "loop"]
    /\ UNCHANGED <<ctx, pool, trace>>
    /\ BatchUnchanged

NextBatch ==
    \/ BatchReturn
    \/ BatchSequential
    \/ BatchSubmit
    \/ BatchWorkerRead
    \/ BatchWorkerWrite
    \/ BatchFutureResult
    \/ BatchShutdown

SpecBatch == InitBatch /\ [][NextBatch]_vars

\* The maximal runs of consecutive InferenceModels of a sequence.
InferenceRuns(seq) ==
    {<<a, b>> \in (DOMAIN seq) \X (DOMAIN seq) :
        /\ a <= b
        /\ \A p \in a..b : IsInferenceModel(seq[p].class)
        /\ (a > 1 => ~IsInferenceModel(seq[a - 1].class))
        /\ (b < Len(seq) => ~IsInferenceModel(seq[b + 1].class))}

Reads(skill) == {skill.inputs[n] : n \in DOMAIN skill.inputs}

\* The InferenceModels of each consecutive run have pairwise distinct
\* outputs and none of them reads another's output.
Independent(seq) ==
    \A run \in InferenceRuns(seq) :
        \A p, q \in run[1]..run[2] :
            p # q => /\ seq[p].outputs[1] # seq[q].outputs[1]
                     /\ seq[q].outputs[1] \notin Reads(seq[p])

Ended == comp # <<>> /\ comp.pc \in {"returned", "raised"}
Sequential == SequentialExecute(comp.seq, 1, comp.start)

\* C36: for every sequence whose InferenceModels of each consecutive run
\* have pairwise distinct outputs and do not read one another's output, the
\* context the thread-pool execute leaves equals, under every interleaving
\* of the batch members, the context the sequential execute leaves on the
\* same sequence and starting context.
C36_ParallelRefinesSequential ==
    (Ended /\ Independent(comp.seq)) => ctx = Sequential.context

\* The exception that left execute is that of a batch member, and the batch
\* members after it.
FailedInBatch == comp.pc = "raised" /\ comp.next \in Batch /\ pool[comp.next] = "failed"
AfterFailure == IF FailedInBatch THEN {p \in Batch : p > comp.next} ELSE {}

\* C36 amended: the contexts are equal when the sequential execute returns;
\* when a skill raises both executions raise that exception, and the
\* contexts differ at most in the dof_value of the outputs of the batch
\* members after the failing one, all of which the thread pool has run.
C36_ParallelRefinesReturning ==
    (Ended /\ Independent(comp.seq)) =>
        /\ comp.pc = "returned" <=> Sequential.ok
        /\ comp.exc = Sequential.exc
        /\ Sequential.ok => ctx = Sequential.context
        /\ ~Sequential.ok =>
              /\ \A var_id \in DOMAIN ctx :
                    ctx[var_id] # Sequential.context[var_id] =>
                       /\ \E p \in AfterFailure : comp.seq[p].outputs[1] = var_id
                       /\ ctx[var_id]
                             = [Sequential.context[var_id]
                                   EXCEPT !.dof_value = ctx[var_id].dof_value]
              /\ FailedInBatch => \A p \in Batch : Finished(p)

\* A sequence of two or more independent models has returned.
C36_Witness ==
    /\ Ended /\ comp.pc = "returned"
    /\ Independent(comp.seq)
    /\ Len(comp.seq) >= 2
    /\ \A p \in DOMAIN comp.seq : IsInferenceModel(comp.seq[p].class)
    /\ ctx # comp.start

-----------------------------------------------------------------------------
(* SpecNest: CompositionSkill.execute on the skills a Strategy built, the  *)
(* calls of nested CompositionSkills as a stack of frames.                 *)
(*                                                                         *)
(* comp.stack holds a frame [name, i] for every CompositionSkill.execute   *)
(* in progress, the innermost last; i is the position in skill_sequence.   *)

MaxNest == 2

\* The depth of calls at which the interpreter raises RecursionError.
RecursionLimit == 3

NestNames == {"outer", "inner", "leaf", "ghost"}

\* The skills section: two CompositionSkills over any sequence of names, a
\* MathFunction as the leaf; "ghost" is in no registry.
NestSkills(outer, inner) ==
    [outer |-> [class |-> "CompositionSkill", config |-> [skill_sequence |-> outer]],
     inner |-> [class |-> "CompositionSkill", config |-> [skill_sequence |-> inner]],
     leaf |-> [class |-> "MathFunction"]]

NestSequences == UNION {[1..n -> NestNames] : n \in 0..MaxNest}

InitNest ==
    /\ \E outer \in NestSequences, inner \in NestSequences :
          cfg = [name |-> "nest", skills |-> NestSkills(outer, inner), tasks |-> <<>>]
    /\ comp = [pc |-> "build", stack |-> <<>>, exc |-> "none"]
    /\ pool = <<>> /\ trace = <<>>
    /\ cyc = <<>> /\ opt = <<>> /\ hist = <<>>
    /\ ContextIdle /\ ConstraintIdle /\ SkillsIdle /\ ServiceIdle

NestUnchanged ==
    UNCHANGED <<cfg, pool, trace, cyc, opt, hist, ctxVars, consVars, skillVars, serviceVars>>

Top == comp.stack[Len(comp.stack)]
TopSequence == cfg.skills[Top.name].config.skill_sequence
Enter(name) == Append(comp.stack, [name |-> name, i |-> 1])

\* self._skills = self._build_skills()
NestBuild ==
    /\ comp.pc = "build"
    /\ comp' = IF build_skills(cfg.skills) THEN [comp EXCEPT !.pc = "built"]
               ELSE [comp EXCEPT !.pc = "rejected", !.exc = "ValueError"]
    /\ NestUnchanged

\* skill.execute(context) of the CompositionSkill a Task names.
NestCall ==
    /\ comp.pc = "built"
    /\ comp' = [comp EXCEPT !.pc = "running", !.stack = Enter("outer")]
    /\ NestUnchanged

\* skill.execute(context) of a member that is a CompositionSkill: a new
\* call, or RecursionError at the interpreter's limit, which no frame
\* catches.
NestEnter ==
    /\ comp.pc = "running"
    /\ Top.i <= Len(TopSequence)
    /\ cfg.skills[TopSequence[Top.i]].class = "CompositionSkill"
    /\ comp' = IF Len(comp.stack) < RecursionLimit
               THEN [comp EXCEPT !.stack = Enter(TopSequence[Top.i])]
               ELSE [comp EXCEPT !.pc = "raised", !.exc = "RecursionError", !.stack = <<>>]
    /\ NestUnchanged

\* skill.execute(context) of a leaf returns: i += 1.
NestLeafReturns ==
    /\ comp.pc = "running"
    /\ Top.i <= Len(TopSequence)
    /\ cfg.skills[TopSequence[Top.i]].class # "CompositionSkill"
    /\ comp' = [comp EXCEPT !.stack[Len(comp.stack)].i = @ + 1]
    /\ NestUnchanged

\* skill.execute(context) of a leaf raises: the exception leaves every call.
NestLeafRaises ==
    /\ comp.pc = "running"
    /\ Top.i <= Len(TopSequence)
    /\ cfg.skills[TopSequence[Top.i]].class # "CompositionSkill"
    /\ comp' = [comp EXCEPT !.pc = "raised", !.exc = "LeafError", !.stack = <<>>]
    /\ NestUnchanged

\* The while loop of a call ends: the call returns to the call that made it.
NestLeave ==
    /\ comp.pc = "running"
    /\ Top.i > Len(TopSequence)
    /\ LET rest == SubSeq(comp.stack, 1, Len(comp.stack) - 1)
       IN  comp' = IF rest = <<>> THEN [comp EXCEPT !.pc = "returned", !.stack = <<>>]
                   ELSE [comp EXCEPT !.stack = [rest EXCEPT ![Len(rest)].i = @ + 1]]
    /\ NestUnchanged

NextNest ==
    \/ NestBuild
    \/ NestCall
    \/ NestEnter
    \/ NestLeafReturns
    \/ NestLeafRaises
    \/ NestLeave

SpecNest == InitNest /\ [][NextNest]_vars

\* The one thread of the cycle keeps running.
SpecNestFair == SpecNest /\ WF_vars(NextNest)

Accepted == comp.pc # "build" /\ comp.pc # "rejected"

\* execute ended by returning or by the exception of a leaf skill.
NestTerminated ==
    comp.pc = "returned" \/ (comp.pc = "raised" /\ comp.exc # "RecursionError")

\* C37: for every configuration construction accepts, a CompositionSkill
\* naming itself or two naming each other included, CompositionSkill.execute
\* terminates when its leaf skills do: its calls reach the end of their
\* sequences (or a leaf's exception ends them) and do not nest without
\* bound until the interpreter's call stack is exhausted.
C37_CompositionTerminates == Accepted ~> NestTerminated

Names(sequence) == {sequence[n] : n \in DOMAIN sequence}

\* outer is called again within its own execute.
Cyclic ==
    LET outer == Names(cfg.skills["outer"].config.skill_sequence)
        inner == Names(cfg.skills["inner"].config.skill_sequence)
    IN  "outer" \in outer \/ ("inner" \in outer /\ {"outer", "inner"} \cap inner # {})

\* The same for the configurations in which no CompositionSkill is reached
\* from its own skill_sequence.
C37_AcyclicTerminates == (Accepted /\ ~Cyclic) ~> (Cyclic \/ NestTerminated)

-----------------------------------------------------------------------------
(* SpecLoop: OptimizationService.run_continuous in its thread and the      *)
(* shutdown of the application in the main thread.                         *)
(*                                                                         *)
(* app.loop is the position of run_continuous: "test" at the while test,   *)
(* "call" between the test and run_single_cycle, "cycle" inside            *)
(* run_single_cycle, "wait" in shutdown_event.wait, "final" in the finally *)
(* block, "returned"; app.step the step of run_single_cycle in progress;   *)
(* app.last how the last cycle ended ("none", "success", "failed");        *)
(* app.late the cycles started with the event set; app.main the main       *)
(* thread: "running", "joining" in shutdown(), "complete" or "forced".     *)

\* A loop that goes on after successful cycles only.
LoopContinuesOnSuccess(success) == success

\* run_continuous after run_single_cycle returned success: both branches
\* of 'if success' log and go on to the wait.
LoopContinues(success) == TRUE

Saturating(n) == IF n < MaxCycles THEN n + 1 ELSE n

InitLoop ==
    /\ app = [loop |-> "test", cycle_count |-> 0, step |-> "none", last |-> "none",
              shutdown |-> FALSE, late |-> 0, main |-> "running"]
    /\ rep = <<>> /\ svc = <<>> /\ cache = <<>>
    /\ ContextIdle /\ ConstraintIdle /\ CompositionIdle /\ CycleIdle /\ SkillsIdle

\* while not self.shutdown_event.is_set()
ContinuousTest ==
    /\ app.loop = "test"
    /\ app' = [app EXCEPT !.loop = IF app.shutdown THEN "final" ELSE "call"]
    /\ AppUnchanged

\* success = self.run_single_cycle() is entered: self.cycle_count += 1
ContinuousCall ==
    /\ app.loop = "call"
    /\ app' = [app EXCEPT !.loop = "cycle", !.step = CycleSteps[1],
                          !.cycle_count = Saturating(@),
                          !.late = IF app.shutdown THEN Saturating(@) ELSE @]
    /\ AppUnchanged

\* What run_continuous does with the value run_single_cycle returned: the
\* statistics, the log line, and on to the wait.
AfterCycle(success) ==
    [app EXCEPT !.step = "none",
                !.last = IF success THEN "success" ELSE "failed",
                !.loop = IF LoopContinues(success) THEN "wait" ELSE "final"]

\* A step of run_single_cycle completes, or raises: except Exception:
\* return False.
ContinuousCycleStep ==
    /\ app.loop = "cycle"
    /\ app.step # "return"
    /\ \/ app' = [app EXCEPT !.step = StepAfter(app.step)]
       \/ app' = AfterCycle(FALSE)
    /\ AppUnchanged

\* run_single_cycle returns True.
ContinuousCycleReturns ==
    /\ app.loop = "cycle"
    /\ app.step = "return"
    /\ app' = AfterCycle(TRUE)
    /\ AppUnchanged

\* if self.shutdown_event.wait(timeout=60): break -- the event is set, or
\* the minute has passed.
ContinuousWait ==
    /\ app.loop = "wait"
    /\ app' = [app EXCEPT !.loop = IF app.shutdown THEN "final" ELSE "test"]
    /\ AppUnchanged

\* finally: self._show_final_statistics(); run_continuous returns.
ContinuousFinal ==
    /\ app.loop = "final"
    /\ app' = [app EXCEPT !.loop = "returned"]
    /\ AppUnchanged

\* ProcessOptimizationApp.shutdown: self.shutdown_event.set()
MainShutdown ==
    /\ app.main = "running"
    /\ app' = [app EXCEPT !.shutdown = TRUE, !.main = "joining"]
    /\ AppUnchanged

\* self.optimization_thread.join(timeout=3): the thread has ended, or the
\* three seconds have passed with the thread alive.
MainJoin ==
    /\ app.main = "joining"
    /\ app' = [app EXCEPT !.main = IF app.loop = "returned" THEN "complete" ELSE "forced"]
    /\ AppUnchanged

LoopThread ==
    \/ ContinuousTest
    \/ ContinuousCall
    \/ ContinuousCycleStep
    \/ ContinuousCycleReturns
    \/ ContinuousWait
    \/ ContinuousFinal

NextLoop ==
    \/ ContinuousTest
    \/ ContinuousCall
    \/ ContinuousCycleStep
    \/ ContinuousCycleReturns
    \/ ContinuousWait
    \/ ContinuousFinal
    \/ MainShutdown
    \/ MainJoin

SpecLoop == InitLoop /\ [][NextLoop]_vars

\* The thread of run_continuous keeps running: the cycle in flight
\* terminates and the wait times out.
SpecLoopFair == SpecLoop /\ WF_vars(LoopThread)

CycleStarts == app.loop = "call" /\ app'.loop = "cycle"
FailedCycleWaiting == app.loop = "wait" /\ app.last = "failed" /\ ~app.shutdown

\* What C38 says of the return of the loop and of failed cycles.
LoopReturnsOnShutdownOnly ==
    /\ app.shutdown ~> app.loop = "returned"
    /\ [](app.loop \in {"final", "returned"} => app.shutdown)
    /\ FailedCycleWaiting ~> (app.shutdown \/ app.loop = "cycle")

\* C38: once the shutdown event is set, run_continuous starts no further
\* cycle and eventually returns; while the event is not set, a failed cycle
\* does not end the loop and the next cycle is attempted after the wait.
C38_LoopShutdown ==
    /\ [][app.shutdown => ~CycleStarts]_vars
    /\ LoopReturnsOnShutdownOnly

\* C38 amended: once the event is set, no cycle starts except the one whose
\* while test was passed before the event was set.
C38_LoopShutdownAfterTest ==
    /\ [][(app.shutdown /\ CycleStarts) => app.late = 0]_vars
    /\ [](app.late <= 1)
    /\ [][(app.shutdown /\ app.loop # "call") => ~CycleStarts]_vars
    /\ LoopReturnsOnShutdownOnly

\* The loop returned on the shutdown after a failed cycle and a cycle after
\* it.
C38_Witness ==
    /\ app # <<>>
    /\ app.loop = "returned"
    /\ app.shutdown
    /\ app.last = "failed"
    /\ app.cycle_count >= 2

-----------------------------------------------------------------------------
(* SpecRedis: RedisCache.set, get and delete on one key of a Redis that    *)
(* answers every command and expires nothing.                              *)
(*                                                                         *)
(* cache.redis is what Redis holds under the key and under key + ":pickle" *)
(* (None when absent); cache.latest the value of the most recent set, <<>> *)
(* after a delete or before any call; cache.read whether get was called   *)
(* since and cache.got what it returned; cache.written the values set so   *)
(* far; cache.calls the calls of set and delete made.                      *)

\* The text of a number: str(value), a character per element.
Number(py, text) == [py |-> py, text |-> text]

\* The supported kinds of value: dicts with str keys, with int keys, and
\* holding an object json.dumps cannot serialise; a str; an int, a float
\* with and without a point in its text, a bool; a datetime; an object.
RedisValues ==
    {[py |-> "dict", keys |-> "str", serialisable |-> TRUE],
     [py |-> "dict", keys |-> "int", serialisable |-> TRUE],
     [py |-> "dict", keys |-> "str", serialisable |-> FALSE],
     [py |-> "str", s |-> "text"],
     Number("int", <<"5">>),
     Number("float", <<"1", ".", "5">>),
     Number("float", <<"1", "e", "+", "2", "0">>),
     Number("bool", <<"T", "r", "u", "e">>),
     [py |-> "datetime", t |-> <<1>>],
     [py |-> "object", id |-> 1]}

\* json.dumps(value) of a dict: keys that are no str become str; TypeError
\* for a member that cannot be serialised.
json_dumps(value) ==
    IF value.serialisable THEN [ok |-> TRUE, text |-> [value EXCEPT !.keys = "str"]]
    ELSE [ok |-> FALSE, exc |-> "TypeError"]

json_loads(text) == text

\* pickle.dumps(value): bytes that begin with the protocol opcode 0x80.
pickle_dumps(value) == [form |-> "bytes", head |-> 128, obj |-> value]

\* The decoding of a reply by a connection made with decode_responses=True:
\* a first byte of 0x80 or more that starts no UTF-8 sequence raises
\* UnicodeDecodeError.
DecodeResponse(data) ==
    IF data.form = "bytes" /\ data.head >= 128 /\ data.head < 194
    THEN [ok |-> FALSE, exc |-> "UnicodeDecodeError"]
    ELSE [ok |-> TRUE, data |-> data]

\* json.dumps(cache_data) of the metadata form.
Metadata(value, type) == [form |-> "str", value |-> value, type |-> type]

IsDigits(text) == \A n \in DOMAIN text : text[n] \in {"0", "1", "2", "5"}

\* float(serialized_value) if '.' in serialized_value else
\* int(serialized_value)
ParseNumber(text) ==
    IF \E n \in DOMAIN text : text[n] = "."
    THEN [ok |-> TRUE, v |-> Number("float", text)]
    ELSE IF IsDigits(text) THEN [ok |-> TRUE, v |-> Number("int", text)]
    ELSE [ok |-> FALSE, exc |-> "ValueError"]

PickleKey == "key:pickle"
NormalKey == "key"

\* RedisCache.set(key, value): what Redis holds afterwards (a bool is an
\* int for isinstance).
RedisCacheSet(redis, value) ==
    IF value.py \in {"dict", "list"}
    THEN IF json_dumps(value).ok
         THEN [redis EXCEPT ![NormalKey] = Metadata(json_dumps(value).text, "json")]
         ELSE [redis EXCEPT ![PickleKey] = pickle_dumps(value)]
    ELSE IF value.py = "str"
    THEN [redis EXCEPT ![NormalKey] = Metadata(value.s, "string")]
    ELSE IF value.py \in {"int", "float", "bool"}
    THEN [redis EXCEPT ![NormalKey] = Metadata(value.text, "number")]
    ELSE IF value.py = "datetime"
    THEN [redis EXCEPT ![NormalKey] = Metadata(isoformat(value.t), "datetime")]
    ELSE [redis EXCEPT ![PickleKey] = pickle_dumps(value)]

\* RedisCache.get(key): the value returned, None when nothing is found or
\* an exception is caught.
RedisCacheGet(redis) ==
    LET cached_data == redis[NormalKey]
        pickled_data == redis[PickleKey]
    IN  IF cached_data # None
        THEN IF cached_data.type = "json" THEN json_loads(cached_data.value)
             ELSE IF cached_data.type = "string" THEN [py |-> "str", s |-> cached_data.value]
             ELSE IF cached_data.type = "number"
             THEN IF ParseNumber(cached_data.value).ok
                  THEN ParseNumber(cached_data.value).v ELSE None
             ELSE [py |-> "datetime", t |-> fromisoformat(cached_data.value)]
        ELSE IF pickled_data # None
        THEN IF DecodeResponse(pickled_data).ok THEN pickled_data.obj ELSE None
        ELSE None

\* RedisCache.delete(key)
RedisCacheDelete(redis) == [redis EXCEPT ![NormalKey] = None, ![PickleKey] = None]

InitRedis ==
    /\ cache = [redis |-> [key \in {NormalKey, PickleKey} |-> None],
                latest |-> <<>>, read |-> FALSE, got |-> None, written |-> {},
                calls |-> 0]
    /\ rep = <<>> /\ svc = <<>> /\ app = <<>>
    /\ ContextIdle /\ ConstraintIdle /\ CompositionIdle /\ CycleIdle /\ SkillsIdle

RedisUnchanged ==
    UNCHANGED <<ctxVars, consVars, compVars, cycVars, skillVars, rep, svc, app>>

\* set(key, value)
RedisSet ==
    /\ cache.calls < MaxCalls
    /\ \E value \in RedisValues :
          cache' = [cache EXCEPT !.redis = RedisCacheSet(@, value),
                                 !.latest = <<value>>, !.read = FALSE, !.got = None,
                                 !.written = @ \cup {value}, !.calls = @ + 1]
    /\ RedisUnchanged

\* delete(key)
RedisDelete ==
    /\ cache.calls < MaxCalls
    /\ cache' = [cache EXCEPT !.redis = RedisCacheDelete(@), !.latest = <<>>,
                              !.read = FALSE, !.got = None, !.calls = @ + 1]
    /\ RedisUnchanged

\* get(key)
RedisGet ==
    /\ ~cache.read
    /\ cache' = [cache EXCEPT !.read = TRUE, !.got = RedisCacheGet(cache.redis)]
    /\ RedisUnchanged

NextRedis ==
    \/ RedisSet
    \/ RedisDelete
    \/ RedisGet

SpecRedis == InitRedis /\ [][NextRedis]_vars

ReadLatest ==
    (cache # <<>> /\ cache.read) =>
        cache.got = IF cache.latest = <<>> THEN None ELSE cache.latest[1]

\* C39: after any sequence of set and delete on a key with values of any
\* supported kind, get returns the value of the most recent set, or None
\* when the most recent operation was a delete; a value stored earlier
\* under the other storage form of the key is never returned.
C39_ReadYourLatestWrite == ReadLatest

\* The values the metadata form gives back as they were set.
RoundTripping ==
    {value \in RedisValues :
        \/ value.py \in {"str", "datetime", "int"}
        \/ value.py = "dict" /\ value.keys = "str" /\ value.serialisable
        \/ value.py = "float" /\ \E n \in DOMAIN value.text : value.text[n] = "."}

\* The same while every value set was a dict with str keys that json.dumps
\* serialises, a str, an int, a float with a point in its text or a
\* datetime.
C39_MetadataFormReadLatest ==
    (cache # <<>> /\ cache.written \subseteq RoundTripping) => ReadLatest

-----------------------------------------------------------------------------
(* SpecSingleton: threads calling get_cache_manager() and storing an entry *)
(* in the model cache of the CacheManager they got.                        *)
(*                                                                         *)
(* cache.instance is CacheManager._instance (None or the number of the     *)
(* object), cache.created the objects made, cache.initialized the          *)
(* _initialized attribute of the object ("unset" before it is assigned),   *)
(* cache.lock the thread holding CacheManager._lock (0 when free),         *)
(* cache.inits how often __init__ made the caches, cache.entries the       *)
(* entries of the present model_cache and cache.stored the entries stored  *)
(* so far; cache.threads[t] is the position of thread t and the object its *)
(* call works on.                                                          *)

MaxThreads == 3

Threads == 1..MaxThreads

InitSingleton ==
    /\ cache = [instance |-> None, created |-> 0, initialized |-> "unset", lock |-> 0,
                inits |-> 0, entries |-> {}, stored |-> {},
                threads |-> [t \in Threads |-> [pc |-> "idle", self |-> None]]]
    /\ rep = <<>> /\ svc = <<>> /\ app = <<>>
    /\ ContextIdle /\ ConstraintIdle /\ CompositionIdle /\ CycleIdle /\ SkillsIdle

At(t, pc) == cache.threads[t].pc = pc
Goto(t, pc) == [cache EXCEPT !.threads[t].pc = pc]

\* get_cache_manager(): CacheManager() enters __new__ with the test
\* 'if cls._instance is None' made without the lock.
NewTest(t) ==
    /\ At(t, "idle")
    /\ cache' = IF cache.instance = None THEN Goto(t, "lock")
                ELSE [cache EXCEPT !.threads[t] = [pc |-> "init", self |-> cache.instance]]

\* with cls._lock: if cls._instance is None
NewLock(t) ==
    /\ At(t, "lock")
    /\ cache.lock = 0
    /\ cache' = IF cache.instance = None
                THEN [cache EXCEPT !.lock = t, !.threads[t].pc = "make"]
                ELSE [cache EXCEPT !.threads[t] = [pc |-> "init", self |-> cache.instance]]

\* cls._instance = super().__new__(cls)
NewMake(t) ==
    /\ At(t, "make")
    /\ cache' = [cache EXCEPT !.instance = <<cache.created + 1>>, !.created = @ + 1,
                              !.initialized = "unset", !.threads[t].pc = "flag"]

\* cls._instance._initialized = False; the lock is released and __new__
\* returns cls._instance.
NewFlag(t) ==
    /\ At(t, "flag")
    /\ cache' = [cache EXCEPT !.initialized = "False", !.lock = 0,
                              !.threads[t] = [pc |-> "init", self |-> cache.instance]]

\* __init__: if not getattr(self, '_initialized', False)
InitTest(initialized) == initialized # "True"

\* __init__ makes its test.
InitEnter(t) ==
    /\ At(t, "init")
    /\ cache' = IF InitTest(cache.initialized) THEN Goto(t, "caches") ELSE Goto(t, "ready")

\* self.model_cache = MemoryCache(...) and the other four caches.
InitCaches(t) ==
    /\ At(t, "caches")
    /\ cache' = [cache EXCEPT !.entries = {}, !.inits = @ + 1, !.threads[t].pc = "done"]

\* self._current_config_version = None; self._version_lock = RLock();
\* self._initialized = True
InitDone(t) ==
    /\ At(t, "done")
    /\ cache' = [cache EXCEPT !.initialized = "True", !.threads[t].pc = "ready"]

\* The caller stores an entry: get_cache_manager().model_cache.set(key, model)
Store(t) ==
    /\ At(t, "ready")
    /\ cache' = [cache EXCEPT !.entries = @ \cup {t}, !.stored = @ \cup {t},
                              !.threads[t].pc = "stored"]

SingletonUnchanged ==
    UNCHANGED <<ctxVars, consVars, compVars, cycVars, skillVars, rep, svc, app>>

NextSingleton ==
    \/ \E t \in Threads : NewTest(t) /\ SingletonUnchanged
    \/ \E t \in Threads : NewLock(t) /\ SingletonUnchanged
    \/ \E t \in Threads : NewMake(t) /\ SingletonUnchanged
    \/ \E t \in Threads : NewFlag(t) /\ SingletonUnchanged
    \/ \E t \in Threads : InitEnter(t) /\ SingletonUnchanged
    \/ \E t \in Threads : InitCaches(t) /\ SingletonUnchanged
    \/ \E t \in Threads : InitDone(t) /\ SingletonUnchanged
    \/ \E t \in Threads : Store(t) /\ SingletonUnchanged

SpecSingleton == InitSingleton /\ [][NextSingleton]_vars

Returned(t) == cache.threads[t].pc \in {"ready", "stored"}

\* Every caller obtains the one object that was made.
OneInstance ==
    /\ cache.created <= 1
    /\ \A t \in Threads :
          cache.threads[t].self # None => cache.threads[t].self = cache.instance

\* C40: for any interleaving of threads calling get_cache_manager(), all
\* callers obtain the same instance, its caches and version tracking are
\* initialized exactly once, and an entry stored by one thread is not lost
\* by another thread's construction re-creating the caches.
C40_SingletonUnderConcurrency ==
    cache # <<>> =>
        /\ OneInstance
        /\ cache.inits <= 1
        /\ (\E t \in Threads : Returned(t)) => cache.inits = 1
        /\ cache.stored \subseteq cache.entries

\* The part that holds: one object, obtained by every caller.
C40_OneInstance == cache # <<>> => OneInstance

====
